---- MODULE Spec2Model ----
(***************************************************************************)
(* A model of the session / token lifecycle and of the OpenID Connect      *)
(* authorization-code flow of seacat-auth.                                 *)
(*                                                                         *)
(* Sessions and opaque tokens live in two stores.  Request handlers are    *)
(* cooperative tasks: a handler runs atomically between two awaits on a    *)
(* store, so every action below is the code between two suspension points. *)
(***************************************************************************)
EXTENDS Integers, Sequences, FiniteSets, TLC

\* ------------------------------------------------------------------ bounds
\* Sessions ever created (session ids are never reused).
MaxSessions == 3
\* An authorization code is minted only while the Token Store holds fewer
\* than MaxTokens tokens (token values are never reused).
MaxTokens == 2

\* ------------------------------------------------------------- vocabulary
\* Python's None, where the value is a string.
None == "None"
\* No session id (None where the value is a session id).
NoSid == 0
\* A deleted record of a store; a lookup that raises KeyError yields it.
Gone == [type |-> "gone"]
IsGone(r) == r.type = "gone"

\* An optional argument or field whose value is not a string: <<>> for None.
Nothing == << >>
Some(x) == <<x>>

Creds == {"alice", "admin"}
Tenants == {"t1", "t2"}
\* The resources a tenant role grants to a member of the tenant.
TenantRoleResources == {"app:read"}
TxHandlers == {"t1", "t2"}

\* PKCE code verifiers a client may present, and their S256 digests.
Verifiers == {"v1", "v2"}
Sha256B64(v) == IF v = "v1" THEN "H(v1)" ELSE IF v = "v2" THEN "H(v2)" ELSE "H(?)"

VARIABLES
    assigned,   \* tenant provider: credentials id -> the tenants assigned to it
    globalRes,  \* role service: credentials id -> resources of its global roles
    credFactors,\* credentials service: credentials id -> its enforce_factors
    lastTenants,\* audit service: credentials id -> tenants last authorized, newest first
    sessions,   \* Session Store: sequence of session records (Gone when deleted)
    tokens,     \* Token Store: sequence of token records (Gone when deleted)
    tx,         \* Token endpoint handlers exchanging an authorization code
    az,         \* authorize endpoint handlers
    cookieReq,  \* last /cookie/entry exchange
    exchanged,  \* history: the codes whose exchange has succeeded
    call        \* the last call of a service method: its arguments and its outcome

worldVars == <<assigned, globalRes, credFactors, lastTenants>>
storeVars == <<sessions, tokens>>
vars == <<assigned, globalRes, credFactors, lastTenants, sessions, tokens, tx, az,
          cookieReq, exchanged, call>>

\* No service method was called yet.
NoCall == [op |-> None]

\* The token values a client may present: every value minted so far, and one
\* that was never minted.
TokenValues == 1 .. (Len(tokens) + 1)

\* ---------------------------------------------------------- session store
LiveSession(sid) ==
    /\ sid \in DOMAIN sessions
    /\ ~IsGone(sessions[sid])

LiveSessions == {s \in DOMAIN sessions : ~IsGone(sessions[s])}

\* SessionService.get: the record, or Gone for KeyError.
SessionGet(sid) == IF LiveSession(sid) THEN sessions[sid] ELSE Gone

\* The ids that SessionService.delete(sid) removes: the session and, by
\* cascade, the sessions whose parent_session_id is sid.
DeletedWith(sid) ==
    {sid} \cup {s \in LiveSessions : sessions[s].parent = sid}

SessionsAfterDelete(sid) ==
    [s \in DOMAIN sessions |-> IF s \in DeletedWith(sid) THEN Gone ELSE sessions[s]]

\* ... and the tokens of the deleted sessions go with them.
TokensAfterDelete(sid) ==
    [t \in DOMAIN tokens |->
        IF ~IsGone(tokens[t]) /\ tokens[t].sid \in DeletedWith(sid) THEN Gone ELSE tokens[t]]

\* ------------------------------------------------------------ token store
\* TokenService.get(token_bytes, token_type): the record, or Gone for KeyError
\* when the value is absent, deleted or of another type.
TokenGet(value, type) ==
    IF value \in DOMAIN tokens /\ tokens[value].type = type
    THEN tokens[value]
    ELSE Gone

\* TokenService.delete(token_bytes).
TokensWithout(value) ==
    [t \in DOMAIN tokens |-> IF t = value THEN Gone ELSE tokens[t]]

\* TokenService.create: the record stored under the next fresh value.  sa marks
\* an algorithmic session, carried by the token itself instead of the store.
Token(type, sid, sa, cc, ccm) ==
    [type |-> type, sid |-> sid, sa |-> sa, cc |-> cc, ccm |-> ccm]

\* PKCE.evaluate_code_challenge: TRUE when the verifier answers the challenge.
EvaluateCodeChallenge(ccm, cc, verifier) ==
    /\ verifier # None
    /\ IF ccm = "S256" THEN Sha256B64(verifier) = cc ELSE verifier = cc

\* --------------------------------------------------------- session builders
\* build_credentials_authz / authz_session_builder: the authz map of the
\* credentials, "*" for the global roles and one key per tenant (the requested
\* tenants, or the assigned ones when none are requested), with the excluded
\* resources taken out of every entry.
BuildAuthz(cid, tenants, exclude) ==
    [k \in {"*"} \cup (IF tenants = Nothing THEN assigned[cid] ELSE tenants[1]) |->
        IF k = "*" THEN globalRes[cid] \ exclude ELSE TenantRoleResources \ exclude]

\* A root session, as login leaves it.  imp is the impersonator's session id,
\* factors the factor types of the login descriptor.
RootSession(cid, imp, factors) ==
    [type |-> "root", parent |-> NoSid, cid |-> cid, imp |-> imp, factors |-> factors,
     authz |-> BuildAuthz(cid, Nothing,
                  IF imp # None THEN {"authz:superuser", "authz:impersonate"} ELSE {}),
     scope |-> {}, client_id |-> None, nonce |-> Nothing, redirect_uri |-> Nothing,
     expiration |-> Nothing]

\* Mutant: nothing is excluded.
ExcludeResourcesNone(root) == {}

\* The resources kept out of a session built on root session `root`.
ExcludeResources(root) ==
    IF root.imp # None THEN {"authz:superuser", "authz:impersonate"} ELSE {}

\* -------------------------------------------------- OpenIdConnectService
\* create_authorization_code(session, code_challenge, code_challenge_method):
\* an "oac" token for the session; an algorithmic session travels in the token.
CreateAuthorizationCode(sid, cc, ccm) ==
    /\ Len(tokens) < MaxTokens
    /\ tokens' = Append(tokens,
            IF sid = NoSid
            THEN Token("oac", NoSid, TRUE, cc, ccm)
            ELSE Token("oac", sid, FALSE, cc, ccm))
    /\ UNCHANGED <<worldVars, sessions, tx, az, cookieReq, call, exchanged>>

\* create_access_token and create_refresh_token for one session: the tokens
\* appended to the store.  No refresh token for an algorithmic session.
IssuedTokens(sid, sa) ==
    IF sa
    THEN <<Token("oat", sid, TRUE, None, None)>>
    ELSE <<Token("oat", sid, FALSE, None, None), Token("ort", sid, FALSE, None, None)>>

\* Mutant: the code challenge of the token is not evaluated.
AuthorizationCodeLookupNoPkce(code, verifier) == TokenGet(code, "oac")

\* get_session_by_authorization_code, from the call to the await that loads the
\* session: look the code up as an "oac" token and evaluate PKCE if it is bound.
\* Yields the token record, or Gone when KeyError or the PKCE failure is raised.
AuthorizationCodeLookup(code, verifier) ==
    LET token_data == TokenGet(code, "oac") IN
    IF IsGone(token_data) THEN Gone
    ELSE IF token_data.cc # None
            /\ ~EvaluateCodeChallenge(token_data.ccm, token_data.cc, verifier)
         THEN Gone
    ELSE token_data

\* ----------------------------------------------------------- Token endpoint
\* grant_type=authorization_code.  The handler calls
\* get_session_by_authorization_code, deletes the code after the session was
\* obtained, then issues the tokens; each action is the code between two awaits.
\* A handler that has replied is idle again; `exchanged` keeps what it did.
\* The handler holds the code_verifier of the request until the session is loaded.
TxIdle == [pc |-> "idle", code |-> 0, verifier |-> None, sid |-> NoSid, sa |-> FALSE]

TxLookup(h, code, verifier) ==
    /\ tx[h].pc = "idle"
    /\ LET token_data == AuthorizationCodeLookup(code, verifier) IN
       tx' = [tx EXCEPT ![h] =
                IF IsGone(token_data)
                THEN TxIdle  \* 400 invalid_grant
                ELSE [pc |-> IF token_data.sa THEN "delete" ELSE "load",
                      code |-> code, verifier |-> IF token_data.sa THEN None ELSE verifier,
                      sid |-> token_data.sid, sa |-> token_data.sa]]
    /\ UNCHANGED <<worldVars, storeVars, az, cookieReq, call, exchanged>>

\* ... return await self.SessionService.get(token_data["sid"])
TxLoad(h) ==
    /\ tx[h].pc = "load"
    /\ tx' = [tx EXCEPT ![h] =
                IF IsGone(SessionGet(tx[h].sid))
                THEN TxIdle  \* 400 invalid_grant
                ELSE [@ EXCEPT !.pc = "delete", !.verifier = None]]
    /\ UNCHANGED <<worldVars, storeVars, az, cookieReq, call, exchanged>>

\* The caller deletes the code after the successful lookup.
TxDelete(h) ==
    /\ tx[h].pc = "delete"
    /\ tokens' = TokensWithout(tx[h].code)
    /\ tx' = [tx EXCEPT ![h].pc = "issue"]
    /\ UNCHANGED <<worldVars, sessions, az, cookieReq, call, exchanged>>

\* ... and replies with the access (and refresh) token of the session.
TxIssue(h) ==
    /\ tx[h].pc = "issue"
    /\ tokens' = tokens \o IssuedTokens(tx[h].sid, tx[h].sa)
    /\ tx' = [tx EXCEPT ![h] = TxIdle]
    /\ exchanged' = exchanged \cup {<<h, tx[h].code>>}
    /\ UNCHANGED <<worldVars, sessions, az, cookieReq, call>>

\* get_session_by_access_token: the session of an "oat" token, or Gone when
\* SessionNotFoundError is raised.
GetSessionByAccessToken(value) ==
    LET token_data == TokenGet(value, "oat") IN
    IF IsGone(token_data) THEN Gone ELSE SessionGet(token_data.sid)

\* Mutant: the refresh-token lookup asks the store for an access token.
GetSessionByRefreshTokenAsAccess(value) ==
    LET token_data == TokenGet(value, "oat") IN
    IF IsGone(token_data) THEN Gone ELSE SessionGet(token_data.sid)

\* get_session_by_refresh_token: the session of an "ort" token, or Gone when
\* SessionNotFoundError is raised.
GetSessionByRefreshToken(value) ==
    LET token_data == TokenGet(value, "ort") IN
    IF IsGone(token_data) THEN Gone ELSE SessionGet(token_data.sid)

\* The record of a revoke_token call: the token presented, whether the store
\* knew it as an access token, and the session id it carried.
RevokeCall(value, token_data) ==
    [op |-> "revoke_token", token |-> value, found |-> ~IsGone(token_data),
     sid |-> IF IsGone(token_data) THEN NoSid ELSE token_data.sid, result |-> "ok"]

\* Mutant: the session of the token is left in the store.
RevokeTokenKeep(value) ==
    /\ call' = RevokeCall(value, TokenGet(value, "oat"))
    /\ UNCHANGED <<worldVars, storeVars, tx, az, cookieReq, exchanged>>

\* revoke_token(token): delete the session the access token refers to; return
\* without a change when get_session_by_access_token raises
\* SessionNotFoundError.  A token that points to no session is itself deleted
\* by get_session_by_access_token.
RevokeToken(value) ==
    /\ LET token_data == TokenGet(value, "oat") IN
       /\ call' = RevokeCall(value, token_data)
       /\ IF IsGone(token_data)
          THEN UNCHANGED storeVars
          ELSE IF IsGone(SessionGet(token_data.sid))
          THEN /\ tokens' = TokensWithout(value)
               /\ UNCHANGED sessions
          ELSE /\ sessions' = SessionsAfterDelete(token_data.sid)
               /\ tokens' = TokensAfterDelete(token_data.sid)
    /\ UNCHANGED <<worldVars, tx, az, cookieReq, exchanged>>

\* The sweeper of the Token Store: an expired token is deleted.
SweepExpired(value) ==
    /\ value \in DOMAIN tokens
    /\ ~IsGone(tokens[value])
    /\ tokens' = TokensWithout(value)
    /\ UNCHANGED <<worldVars, sessions, tx, az, cookieReq, exchanged, call>>

\* ------------------------------------------------------------ /cookie/entry
\* The configured application cookie domains (CookieService.ApplicationCookies).
ApplicationCookies == {"app"}

\* OpenIdConnectService.pop_session_id_by_authorization_code(code): take the
\* code out of the store and yield the session id it was bound to.
PopSessionIdByAuthorizationCode(code) ==
    LET token_data == TokenGet(code, "oac") IN
    IF IsGone(token_data)
    THEN [found |-> FALSE, sid |-> NoSid, tokens |-> tokens]
    ELSE [found |-> TRUE, sid |-> token_data.sid, tokens |-> TokensWithout(code)]

\* Mutant: the code is looked up but left in the store.
CookieGetSessionByAuthorizationCodeKeep(code) ==
    LET token_data == TokenGet(code, "oac") IN
    [session |-> IF IsGone(token_data) THEN Gone ELSE SessionGet(token_data.sid),
     tokens |-> tokens]

\* CookieService.get_session_by_authorization_code(code): the session (Gone for
\* the None it returns) and the token store it leaves.
CookieGetSessionByAuthorizationCode(code) ==
    LET popped == PopSessionIdByAuthorizationCode(code) IN
    [session |-> IF popped.found THEN SessionGet(popped.sid) ELSE Gone,
     tokens |-> popped.tokens]

CookieIdle == [grant_type |-> None, domain_id |-> None, result |-> None]

\* CookieHandler.cookie_request: exchange a code for the cookie of an
\* application domain; cookieReq keeps the request and its reply.
CookieRequest(grant_type, code, domain_id) ==
    IF grant_type # "authorization_code"
    THEN /\ cookieReq' = [grant_type |-> grant_type, domain_id |-> domain_id,
                          result |-> "400"]
         /\ UNCHANGED <<worldVars, storeVars, tx, az, exchanged, call>>
    ELSE LET got == CookieGetSessionByAuthorizationCode(code) IN
         /\ tokens' = got.tokens
         /\ cookieReq' = [grant_type |-> grant_type, domain_id |-> domain_id,
                          result |-> IF IsGone(got.session) THEN "400"
                                     ELSE IF domain_id \notin ApplicationCookies
                                     THEN "KeyError"
                                     ELSE "302"]
         /\ exchanged' = IF IsGone(got.session) THEN exchanged
                         ELSE exchanged \cup {<<"cookie", code>>}
         /\ UNCHANGED <<worldVars, sessions, tx, az, call>>

\* ------------------------------------------------------- authorize: inputs
\* The registered client and its redirect URI; "nobody" is no client and
\* "https://evil/cb" is registered for no client.
RegisteredRedirectUris == [app1 |-> {"https://app1/cb"}]

\* ClientService.authorize_client: what it raises ("ok" when nothing).
AuthorizeClient(client_id, redirect_uri) ==
    IF client_id \notin DOMAIN RegisteredRedirectUris THEN "KeyError"
    ELSE IF redirect_uri \notin RegisteredRedirectUris[client_id] THEN "InvalidRedirectURI"
    ELSE "ok"

\* The tenants that exist; "tenant:ghost" in a scope names one that does not.
TenantEntries == {"tenant:*", "tenant:t1", "tenant:t2", "tenant:ghost"}
\* resource[len("tenant:"):]
TenantOfEntry(resource) ==
    IF resource = "tenant:*" THEN "*"
    ELSE IF resource = "tenant:t1" THEN "t1"
    ELSE IF resource = "tenant:t2" THEN "t2"
    ELSE "ghost"

\* str() of the aiohttp request and of its parameters, as urlencode renders an
\* object that is passed where the error code belongs.
RequestRepr == "<Request GET /openidconnect/authorize>"
ParamsRepr == "<MultiDictProxy>"
\* The targets a reply can send the user agent to, other than a redirect_uri.
AuthorizeSelf == "<PublicApiBaseUrl>/openidconnect/authorize"
LoginUi == "<AuthWebuiBaseUrl>/#/login"
FactorSetupUi == "<AuthWebuiBaseUrl>/#/"

\* AuthenticationService.EnforceFactors: the globally enforced factor types.
EnforceFactors == {"totp"}

\* ---------------------------------------------------- authorize: replies
NoReply == [status |-> 0, location |-> None, error |-> None, error_description |-> None,
            state |-> None, cookie |-> "untouched", code |-> 0, step |-> None,
            audit |-> None]

\* reply_with_authentication_error(error, redirect_uri, error_description,
\* error_uri, state): always an HTTPFound, to redirect_uri when one is given and
\* to the authorize endpoint itself otherwise, the error in the query.
ReplyWithAuthenticationError(error, redirect_uri, error_description, state) ==
    [NoReply EXCEPT !.status = 302,
                    !.location = IF redirect_uri # None THEN redirect_uri ELSE AuthorizeSelf,
                    !.error = error,
                    !.error_description = error_description,
                    !.state = state]

\* reply_with_redirect_to_login: 404 with the login form in Location, the
\* session cookie deleted; the loopback carries the state.
ReplyWithRedirectToLogin(state) ==
    [NoReply EXCEPT !.status = 404, !.location = LoginUi, !.state = state,
                    !.cookie = "deleted"]

\* reply_with_factor_setup_redirect: 302 to the factor setup page, the cookie
\* set when "cookie" is in the scope.
ReplyWithFactorSetupRedirect(scope, state) ==
    [NoReply EXCEPT !.status = 302, !.location = FactorSetupUi, !.state = state,
                    !.cookie = IF "cookie" \in scope THEN "set" ELSE "untouched"]

\* reply_with_successful_response: 302 to redirect_uri with the state; the code
\* is added unless "cookie" is in the scope, and then the cookie is set.
ReplyWithSuccessfulResponse(scope, redirect_uri, state, code) ==
    [NoReply EXCEPT !.status = 302, !.location = redirect_uri, !.state = state,
                    !.code = IF "cookie" \notin scope THEN code ELSE 0,
                    !.cookie = IF "cookie" \in scope THEN "set" ELSE "untouched"]

\* ---------------------------------------------------- authorize: requests
\* The parameters of an authorize request; None for a parameter that is absent
\* or empty, the scope split into the set of its entries ({} when absent).
Req(scope, client_id, response_type, redirect_uri, state, prompt) ==
    [scope |-> scope, client_id |-> client_id, response_type |-> response_type,
     redirect_uri |-> redirect_uri, state |-> state, prompt |-> prompt,
     code_challenge |-> None, code_challenge_method |-> None, expiration |-> None]

\* The request with the PKCE parameters code_challenge and code_challenge_method.
WithCodeChallenge(req, code_challenge, code_challenge_method) ==
    [req EXCEPT !.code_challenge = code_challenge,
                !.code_challenge_method = code_challenge_method]

\* The request with the login-control parameter expiration.
WithExpiration(req, expiration) == [req EXCEPT !.expiration = expiration]

\* int(requested_expiration) for the decimal strings a request carries here.
ParseInt(str) == IF str = "3600" THEN 3600 ELSE 0

NoReq == Req({}, None, None, None, None, None)

\* A handler: its position, the request, the id of the session the request came
\* with (request.Session, resolved before the handler runs) and root_session as
\* the handler holds it; then what it did: tenants resolved, reply sent, session
\* created, sessions deleted.  hadRoot: the request came with a root session.
AzIdle == [pc |-> "idle", req |-> NoReq, sid |-> NoSid, hadRoot |-> FALSE, root |-> Gone,
           tenants |-> {}, factors_to_setup |-> {}, reply |-> NoReply, created |-> NoSid,
           deleted |-> {}]

\* A reply, with the validation step that produced it and the audit record.
Replied(reply, step, audit) ==
    [pc |-> "done", reply |-> [reply EXCEPT !.step = step, !.audit = audit]]

\* Mutant: prompt=select_account goes on with the root session.
AfterPromptLoginSelect(req, root) ==
    IF IsGone(root) /\ req.prompt = "none"
    THEN Replied(ReplyWithAuthenticationError(RequestRepr, "login_required",
                    req.redirect_uri, req.state), "login_required", "login_required")
    ELSE IF IsGone(root)
    THEN Replied(ReplyWithRedirectToLogin(req.state), "login", None)
    ELSE [pc |-> "resolve", reply |-> NoReply]

\* authentication_code_flow from "if root_session is None and prompt == none"
\* to "We are authenticated!": the reply, or on to the tenant resolution.
AfterPromptLogin(req, root) ==
    IF IsGone(root) /\ req.prompt = "none"
    THEN Replied(ReplyWithAuthenticationError(RequestRepr, "login_required",
                    req.redirect_uri, req.state), "login_required", "login_required")
    ELSE IF IsGone(root) \/ req.prompt = "select_account"
    THEN Replied(ReplyWithRedirectToLogin(req.state), "login", None)
    ELSE [pc |-> "resolve", reply |-> NoReply]

\* authentication_code_flow up to its first await on the Session Store: client
\* and redirect_uri, openid, the root session, the prompt.  pc "delete" is the
\* await of SessionService.delete for prompt=login.
AuthenticationCodeFlow(req, session) ==
    IF AuthorizeClient(req.client_id, req.redirect_uri) = "InvalidRedirectURI"
    THEN Replied(ReplyWithAuthenticationError("invalid_redirect_uri", None,
                    "redirect_uri is not valid for given client_id", req.state),
                 "client", "invalid_redirect_uri")
    ELSE IF "openid" \notin req.scope
    THEN Replied(ReplyWithAuthenticationError("invalid_scope", req.redirect_uri,
                    "Scope must contain 'openid'", req.state), "openid", "invalid_scope")
    ELSE LET root_session == IF session.type # "root" THEN Gone ELSE session IN
         IF req.prompt \notin {None, "none", "login", "select_account"}
         THEN Replied(ReplyWithAuthenticationError("invalid_request", req.redirect_uri,
                        "Invalid parameter value for prompt", req.state),
                      "prompt", "invalid_request")
         ELSE IF req.prompt = "login" /\ ~IsGone(root_session)
         THEN [pc |-> "delete", reply |-> NoReply]
         ELSE AfterPromptLogin(req, root_session)

\* authorize: the presence of the required parameters, then the flow chosen by
\* response_type.
Authorize(req, session) ==
    IF req.scope = {} \/ req.client_id = None \/ req.response_type = None
        \/ req.redirect_uri = None
    THEN Replied(ReplyWithAuthenticationError("invalid_request", req.redirect_uri,
                    "Missing required parameter", req.state), "presence", None)
    ELSE IF req.response_type = "code"
    THEN AuthenticationCodeFlow(req, session)
    ELSE Replied(ReplyWithAuthenticationError(ParamsRepr, "invalid_request",
                    "Invalid response_type", None), "response_type", "invalid_response_type")

\* ------------------------------------------- authorize: tenants and factors
\* RBACService.has_resource_access(authz, tenant=None, [resource]): the resource
\* is among the global ones, or the credentials are superuser.
HasResourceAccess(authz, resource) ==
    resource \in authz["*"] \/ "authz:superuser" \in authz["*"]

UserHasAccessToAllTenants(authz) ==
    HasResourceAccess(authz, "authz:superuser")
        \/ HasResourceAccess(authz, "authz:tenant:access")

\* Mutant: the loop refuses no entry.
RefusedTenantEntriesNone(scope, user_tenants, access_all) == {}

\* The loop over the "tenant:" entries of the scope: the entries it refuses.
\* An unassigned tenant is accepted only from a user with access to all tenants
\* and only if it exists.
RefusedTenantEntries(scope, user_tenants, access_all) ==
    {r \in scope \cap TenantEntries :
        LET tenant == TenantOfEntry(r) IN
        /\ tenant # "*"
        /\ tenant \notin user_tenants
        /\ ~(access_all /\ tenant \in Tenants)}

\* ... and the tenants it collects when it refuses none.
LoopTenants(scope, user_tenants) ==
    UNION {IF TenantOfEntry(r) = "*" THEN user_tenants ELSE {TenantOfEntry(r)} :
            r \in scope \cap TenantEntries}

\* last_tenants: the audit history (newest first) without the tenants that are
\* not assigned to the user.
LastTenants(last, user_tenants) ==
    LET Assigned(t) == t \in user_tenants IN SelectSeq(last, Assigned)

\* Mutant: the audit history is taken as it is.
ResolveTenantsUnfiltered(scope, user_tenants, access_all, last) ==
    IF RefusedTenantEntries(scope, user_tenants, access_all) # {}
    THEN {[error |-> "unauthorized_tenant",
           audit |-> IF access_all THEN "tenant_not_found" ELSE "unauthorized_tenant",
           tenants |-> {}]}
    ELSE IF LoopTenants(scope, user_tenants) = {} /\ "tenant" \in scope
    THEN IF last # << >>
         THEN {[error |-> None, audit |-> None, tenants |-> {Head(last)}]}
         ELSE IF user_tenants # {}
         THEN {[error |-> None, audit |-> None, tenants |-> {t}] : t \in user_tenants}
         ELSE {[error |-> "user_has_no_tenant", audit |-> "user_has_no_tenant",
                tenants |-> {}]}
    ELSE {[error |-> None, audit |-> None, tenants |-> LoopTenants(scope, user_tenants)]}

\* The tenant resolution of authentication_code_flow: the outcomes it can have,
\* an error with its audit record or the tenant set.  user_tenants[0] is any of
\* the assigned tenants, the provider's order being unknown.
ResolveTenants(scope, user_tenants, access_all, last) ==
    IF RefusedTenantEntries(scope, user_tenants, access_all) # {}
    THEN {[error |-> "unauthorized_tenant",
           audit |-> IF access_all THEN "tenant_not_found" ELSE "unauthorized_tenant",
           tenants |-> {}]}
    ELSE IF LoopTenants(scope, user_tenants) = {} /\ "tenant" \in scope
    THEN IF LastTenants(last, user_tenants) # << >>
         THEN {[error |-> None, audit |-> None,
                tenants |-> {Head(LastTenants(last, user_tenants))}]}
         ELSE IF user_tenants # {}
         THEN {[error |-> None, audit |-> None, tenants |-> {t}] : t \in user_tenants}
         ELSE {[error |-> "user_has_no_tenant", audit |-> "user_has_no_tenant",
                tenants |-> {}]}
    ELSE {[error |-> None, audit |-> None, tenants |-> LoopTenants(scope, user_tenants)]}

\* Mutant: the factors of the login descriptor are not looked at.
GetFactorsToSetupNone(login_factors, cred_enforce_factors) == {}

\* _get_factors_to_setup: the globally enforced factors the login descriptor
\* does not hold, and every factor enforced on the credentials.
GetFactorsToSetup(login_factors, cred_enforce_factors) ==
    (EnforceFactors \ login_factors) \cup cred_enforce_factors

\* create_oidc_session(root_session, client_id, scope, nonce, redirect_uri,
\* tenants, requested_expiration): the child session record, its authz built
\* for `tenants` with the resources excluded for an impersonated root.
CreateOidcSession(root_sid, root_session, client_id, scope, nonce, redirect_uri, tenants, requested_expiration) ==
    [type |-> "openidconnect", parent |-> root_sid, cid |-> root_session.cid,
     imp |-> root_session.imp, factors |-> root_session.factors,
     authz |-> BuildAuthz(root_session.cid, tenants, ExcludeResources(root_session)),
     scope |-> scope, client_id |-> client_id, nonce |-> nonce,
     redirect_uri |-> redirect_uri, expiration |-> requested_expiration]

\* The call of authentication_code_flow: create_oidc_session(root_session,
\* client_id, scope, tenants, requested_expiration), all positional, so that the
\* resolved tenants land in nonce and the expiration in redirect_uri.
AuthorizeChild(root_sid, root_session, client_id, scope, tenants, requested_expiration) ==
    CreateOidcSession(root_sid, root_session, client_id, scope, Some(tenants),
                      requested_expiration, Nothing, Nothing)

\* ---------------------------------------------------- authorize: the handler
\* The request arrives with session `sid` (NoSid for none) and runs up to its
\* first await on a store.
AzReceive(h, req, sid) ==
    /\ az[h].pc \in {"idle", "done"}
    /\ sid = NoSid \/ LiveSession(sid)
    /\ LET session == SessionGet(sid)
           o == Authorize(req, session)
       IN az' = [az EXCEPT ![h] =
                    [AzIdle EXCEPT !.pc = o.pc, !.req = req, !.sid = sid,
                                   !.hadRoot = (session.type = "root"),
                                   !.root = IF session.type = "root" THEN session ELSE Gone,
                                   !.reply = o.reply]]
    /\ UNCHANGED <<worldVars, storeVars, tx, cookieReq, call, exchanged>>

\* Mutant: prompt=login leaves the root session in the store.
AzDeleteRootKeep(h) ==
    /\ az[h].pc = "delete"
    /\ LET o == AfterPromptLogin(az[h].req, Gone)
       IN az' = [az EXCEPT ![h] = [@ EXCEPT !.pc = o.pc, !.reply = o.reply, !.root = Gone]]
    /\ UNCHANGED <<worldVars, storeVars, tx, cookieReq, call, exchanged>>

\* prompt=login with a root session: await SessionService.delete(root), then
\* root_session = None and the rest of the prompt handling.
AzDeleteRoot(h) ==
    /\ az[h].pc = "delete"
    /\ sessions' = SessionsAfterDelete(az[h].sid)
    /\ tokens' = TokensAfterDelete(az[h].sid)
    /\ LET o == AfterPromptLogin(az[h].req, Gone)
       IN az' = [az EXCEPT ![h] = [@ EXCEPT !.pc = o.pc, !.reply = o.reply, !.root = Gone,
                                             !.deleted = DeletedWith(az[h].sid) \cap LiveSessions]]
    /\ UNCHANGED <<worldVars, tx, cookieReq, call, exchanged>>

\* "We are authenticated!": the tenants of the scope, then the factors to set up.
AzResolve(h) ==
    /\ az[h].pc = "resolve"
    /\ LET req == az[h].req
           root_session == az[h].root
           user_tenants == assigned[root_session.cid]
       IN \E o \in ResolveTenants(req.scope, user_tenants,
                        UserHasAccessToAllTenants(root_session.authz),
                        lastTenants[root_session.cid]) :
            LET factors_to_setup == GetFactorsToSetup(root_session.factors,
                                        credFactors[root_session.cid])
                r == IF o.error # None
                     THEN Replied(ReplyWithAuthenticationError(o.error, req.redirect_uri,
                                    o.error, req.state), "tenant", o.audit)
                     ELSE IF factors_to_setup # {}
                     THEN Replied(ReplyWithFactorSetupRedirect(req.scope, req.state),
                                  "factors", None)
                     ELSE [pc |-> "create", reply |-> NoReply]
            IN az' = [az EXCEPT ![h] =
                        [@ EXCEPT !.pc = r.pc, !.reply = r.reply, !.tenants = o.tenants,
                                  !.factors_to_setup = IF o.error # None THEN {}
                                                       ELSE factors_to_setup]]
    /\ UNCHANGED <<worldVars, storeVars, tx, cookieReq, call, exchanged>>

\* The orders in which a list can hold the elements of S.
Orderings(S) ==
    {order \in [1 .. Cardinality(S) -> S] : {order[i] : i \in DOMAIN order} = S}

\* create_oidc_session on the root session the handler holds, the audit record
\* of the success, and reply_with_successful_response: the code of the new
\* session unless "cookie" is in the scope.
AzCreate(h) ==
    /\ az[h].pc = "create"
    /\ Len(sessions) < MaxSessions
    /\ LET req == az[h].req
           requested_expiration == IF req.expiration = None THEN Nothing
                                   ELSE Some(ParseInt(req.expiration))
           session == AuthorizeChild(az[h].sid, az[h].root, req.client_id, req.scope,
                                     az[h].tenants, requested_expiration)
           session_id == Len(sessions) + 1
           audited == DOMAIN session.authz \ {"*"}
       IN /\ sessions' = Append(sessions, session)
          /\ \E newest \in Orderings(audited) :
                lastTenants' = [lastTenants EXCEPT ![session.cid] =
                                    newest \o LastTenants(@, Tenants \ audited)]
          /\ tokens' = IF "cookie" \notin req.scope
                       THEN Append(tokens, Token("oac", session_id, FALSE, None, None))
                       ELSE tokens
          /\ az' = [az EXCEPT ![h] =
                        [@ EXCEPT !.pc = "done", !.created = session_id,
                                  !.reply = [ReplyWithSuccessfulResponse(req.scope,
                                                req.redirect_uri, req.state, Len(tokens) + 1)
                                             EXCEPT !.step = "success"]]]
    /\ UNCHANGED <<assigned, globalRes, credFactors, tx, cookieReq, call, exchanged>>

\* ------------------------------------------------------- login and refresh
\* A login: a new root session of the credentials.
Login(cid, imp, factors) ==
    /\ Len(sessions) < MaxSessions
    /\ sessions' = Append(sessions, RootSession(cid, imp, factors))
    /\ UNCHANGED <<worldVars, tokens, tx, az, cookieReq, call, exchanged>>

\* A change of the global roles of the credentials.
SetGlobalResources(cid, resources) ==
    /\ globalRes' = [globalRes EXCEPT ![cid] = resources]
    /\ UNCHANGED <<assigned, credFactors, lastTenants, storeVars, tx, az, cookieReq, call,
                   exchanged>>

\* TenantService.get_tenants_by_scope: the tenant sets the scope can resolve to;
\* none when it raises.
GetTenantsByScope(scope, user_tenants, access_all, last) ==
    {o.tenants : o \in {r \in ResolveTenants(scope, user_tenants, access_all, last) :
                            r.error = None}}

\* get_accessible_tenant_from_scope: tenants.pop(), or None for no tenant.
GetAccessibleTenantFromScope(scope, user_tenants, access_all, last) ==
    UNION {IF tenants = {} THEN {None} ELSE tenants :
            tenants \in GetTenantsByScope(scope, user_tenants, access_all, last)}

\* TenantService.unassign_tenant / assign_tenant: the provider drops or adds
\* the assignment.
UnassignTenant(cid, tenant) ==
    /\ tenant \in assigned[cid]
    /\ assigned' = [assigned EXCEPT ![cid] = @ \ {tenant}]
    /\ UNCHANGED <<globalRes, credFactors, lastTenants, storeVars, tx, az, cookieReq,
                   exchanged, call>>

AssignTenant(cid, tenant) ==
    /\ tenant \notin assigned[cid]
    /\ assigned' = [assigned EXCEPT ![cid] = @ \cup {tenant}]
    /\ UNCHANGED <<globalRes, credFactors, lastTenants, storeVars, tx, az, cookieReq,
                   exchanged, call>>

\* Mutant: every requested scope counts as granted.
UnauthorizedScopeNone(requested_scope, session_scope) == {}

\* unauthorized_scope = requested_scope - set(session.OAuth2.Scope)
UnauthorizedScope(requested_scope, session_scope) == requested_scope \ session_scope

\* The record of a refresh_session call: the session, the scope requested (None
\* for the scope of the session) and what the call raised ("ok" for nothing).
RefreshCall(sid, requested_scope, result) ==
    [op |-> "refresh_session", sid |-> sid, requested_scope |-> requested_scope,
     result |-> result]

\* refresh_session(session, requested_scope) on the session object the caller
\* holds: what the call raises ("ok" for nothing) and the authz and scope that
\* update_session writes.  The call raises, before anything is written, when
\* the root is gone, the requested scope holds an entry the session's scope
\* does not or the tenants of the scope are refused.
RefreshOutcomes(session, requested_scope) ==
    LET root_session == SessionGet(session.parent)
        granted_scope == IF requested_scope = Nothing THEN session.scope
                         ELSE requested_scope[1]
        Raised(error) == {[result |-> error, authz |-> session.authz, scope |-> session.scope]}
    IN IF IsGone(root_session) THEN Raised("SessionNotFoundError")
       ELSE IF requested_scope # Nothing
                /\ UnauthorizedScope(requested_scope[1], session.scope) # {}
       THEN Raised("AccessDeniedError")
       ELSE LET exclude_resources == ExcludeResources(root_session)
                authz == BuildAuthz(root_session.cid, Nothing, exclude_resources)
                accessible == GetAccessibleTenantFromScope(granted_scope,
                                 assigned[root_session.cid],
                                 UserHasAccessToAllTenants(authz),
                                 lastTenants[root_session.cid])
            IN IF accessible = {} THEN Raised("AccessDeniedError")
               ELSE {[result |-> "ok",
                      authz |-> BuildAuthz(root_session.cid,
                                    IF authorized_tenant = None THEN Nothing
                                    ELSE Some({authorized_tenant}),
                                    exclude_resources),
                      scope |-> granted_scope] : authorized_tenant \in accessible}

\* A refresh of the session as the store holds it.
RefreshSession(sid, requested_scope) ==
    /\ LiveSession(sid)
    /\ sessions[sid].type = "openidconnect"
    /\ \E o \in RefreshOutcomes(sessions[sid], requested_scope) :
        /\ call' = RefreshCall(sid, requested_scope, o.result)
        /\ sessions' = IF o.result # "ok" THEN sessions
                       ELSE [sessions EXCEPT ![sid] =
                                [@ EXCEPT !.authz = o.authz, !.scope = o.scope]]
    /\ UNCHANGED <<worldVars, tokens, tx, az, cookieReq, exchanged>>

\* ------------------------------------------------- the code exchange machine
\* One user is logged in and holds an OIDC session; codes are minted for that
\* session and exchanged at the Token endpoint and at /cookie/entry.
InitWorld ==
    /\ assigned = [c \in Creds |-> IF c = "alice" THEN {"t1"} ELSE {}]
    /\ globalRes = [c \in Creds |-> IF c = "admin" THEN {"authz:superuser"} ELSE {}]
    /\ credFactors = [c \in Creds |-> {}]
    /\ lastTenants = [c \in Creds |-> << >>]

InitToken ==
    /\ InitWorld
    /\ sessions = <<
            RootSession("alice", None, {"totp"}),
            AuthorizeChild(1, RootSession("alice", None, {"totp"}), "app1", {"openid"},
                           {}, Nothing) >>
    /\ tokens = << >>
    /\ tx = [h \in TxHandlers |-> TxIdle]
    /\ az = [h \in {"a1"} |-> AzIdle]
    /\ cookieReq = CookieIdle
    /\ call = NoCall
    /\ exchanged = {}

NextToken ==
    \/ \E sid \in {s \in LiveSessions : sessions[s].type = "openidconnect"},
          cc \in {None, Sha256B64("v1")} :
            CreateAuthorizationCode(sid, cc, IF cc = None THEN None ELSE "S256")
    \/ \E h \in TxHandlers, code \in TokenValues, verifier \in {None} \cup Verifiers :
            TxLookup(h, code, verifier)
    \/ \E h \in TxHandlers : TxLoad(h)
    \/ \E h \in TxHandlers : TxDelete(h)
    \/ \E h \in TxHandlers : TxIssue(h)
    \/ \E grant_type \in {"authorization_code", "refresh_token"}, code \in TokenValues,
          domain_id \in {"app", "ghost"} :
            CookieRequest(grant_type, code, domain_id)

SpecToken == InitToken /\ [][NextToken]_vars

\* ------------------------------------------------ the authorize machine
\* One authorize request, drawn with the world it arrives in: the user, the
\* tenants and factors of the user, the parameters of the request and the
\* session it comes with (none, a root session, an OIDC session).
Prompts == {None, "none", "login", "select_account", "consent"}

ValidateRequests ==
    {Req(scope, client_id, response_type, redirect_uri, state, prompt) :
        scope \in {{}, {"profile"}, {"openid"}},
        client_id \in {None, "app1"},
        response_type \in {None, "code", "token"},
        redirect_uri \in {None, "https://app1/cb", "https://evil/cb"},
        state \in {None, "xyz"},
        prompt \in Prompts}

FlowScopes ==
    {{"openid"} \cup extra :
        extra \in {{}, {"cookie"}, {"tenant"}, {"tenant:*"}, {"tenant:t1"}, {"tenant:t2"},
                   {"tenant:ghost"}, {"tenant:t1", "tenant:t2"}, {"tenant", "tenant:*"}}}

FlowRequests ==
    {Req(scope, client_id, "code", "https://app1/cb", "xyz", prompt) :
        scope \in FlowScopes, client_id \in {"app1", "nobody"}, prompt \in Prompts}

PkceRequests ==
    {WithCodeChallenge(Req({"openid"}, "app1", "code", "https://app1/cb", "xyz", prompt),
                       Sha256B64("v1"), "S256") : prompt \in {None, "none"}}

ExpirationRequests ==
    {WithExpiration(Req({"openid"} \cup extra, "app1", "code", "https://app1/cb", "xyz", None),
                    "3600") : extra \in {{}, {"tenant:t1"}}}

InitAuthorize ==
    /\ assigned \in {[c \in Creds |-> IF c = "alice" THEN ts ELSE {}] :
                        ts \in {{}, {"t1"}, {"t1", "t2"}}}
    /\ globalRes = [c \in Creds |-> IF c = "admin" THEN {"authz:superuser"} ELSE {}]
    /\ credFactors \in {[c \in Creds |-> fs] : fs \in {{}, {"sms"}, {"totp"}}}
    /\ lastTenants \in {[c \in Creds |-> ts] : ts \in {<< >>, <<"t2">>, <<"t2", "t1">>}}
    /\ \E cid \in Creds, factors \in {{}, {"totp"}} :
            sessions = << RootSession(cid, None, factors),
                          AuthorizeChild(1, RootSession(cid, None, factors), "app1",
                                         {"openid"}, {}, Nothing) >>
    /\ tokens = << >>
    /\ tx = [h \in TxHandlers |-> TxIdle]
    /\ \E req \in ValidateRequests \cup FlowRequests \cup PkceRequests
                            \cup ExpirationRequests, sid \in {NoSid, 1, 2} :
            az = [h \in {"a1"} |-> [AzIdle EXCEPT !.req = req, !.sid = sid]]
    /\ cookieReq = CookieIdle
    /\ call = NoCall
    /\ exchanged = {}

NextAuthorize ==
    \/ \E h \in DOMAIN az : az[h].pc = "idle" /\ AzReceive(h, az[h].req, az[h].sid)
    \/ \E h \in DOMAIN az : AzDeleteRoot(h)
    \/ \E h \in DOMAIN az : AzResolve(h)
    \/ \E h \in DOMAIN az : AzCreate(h)

SpecAuthorize == InitAuthorize /\ [][NextAuthorize]_vars

\* ------------------------------------------------------ the authorize race
\* Two authorize requests of the same user agent, both arriving with the root
\* session, and a login that may follow.
RaceRequests ==
    {Req({"openid"} \cup extra, "app1", "code", "https://app1/cb", "xyz", prompt) :
        extra \in {{}, {"cookie"}}, prompt \in {None, "none", "login"}}

InitRace ==
    /\ InitWorld
    /\ sessions = << RootSession("alice", None, {"totp"}) >>
    /\ tokens = << >>
    /\ tx = [h \in TxHandlers |-> TxIdle]
    /\ az \in [{"a1", "a2"} -> {[AzIdle EXCEPT !.req = req, !.sid = 1] : req \in RaceRequests}]
    /\ cookieReq = CookieIdle
    /\ call = NoCall
    /\ exchanged = {}

NextRace ==
    \/ \E h \in DOMAIN az :
            az[h].pc = "idle" /\ LiveSession(az[h].sid) /\ AzReceive(h, az[h].req, az[h].sid)
    \/ \E h \in DOMAIN az : AzDeleteRoot(h)
    \/ \E h \in DOMAIN az : AzResolve(h)
    \/ \E h \in DOMAIN az : AzCreate(h)
    \/ Login("alice", None, {"totp"})

SpecRace == InitRace /\ [][NextRace]_vars

\* --------------------------------------------------- the impersonation machine
\* A root session, impersonated or not, of a user whose global roles change;
\* OIDC sessions are authorized on it and refreshed.
ImpRequests ==
    {Req({"openid", "profile"} \cup extra, "app1", "code", "https://app1/cb", "xyz", None) :
        extra \in {{}, {"tenant:t1"}}}

GlobalResourceSets == {{}, {"authz:superuser"}, {"authz:impersonate", "app:read"}}

InitImp ==
    /\ assigned = [c \in Creds |-> {"t1"}]
    /\ globalRes \in [Creds -> GlobalResourceSets]
    /\ credFactors = [c \in Creds |-> {}]
    /\ lastTenants = [c \in Creds |-> << >>]
    /\ \E imp \in {None, "impersonator"} :
            sessions = << RootSession("alice", imp, {"totp"}) >>
    /\ tokens = << >>
    /\ tx = [h \in TxHandlers |-> TxIdle]
    /\ az \in [{"a1"} -> {[AzIdle EXCEPT !.req = req, !.sid = 1] : req \in ImpRequests}]
    /\ cookieReq = CookieIdle
    /\ call = NoCall
    /\ exchanged = {}

NextImp ==
    \/ \E h \in DOMAIN az : az[h].pc = "idle" /\ AzReceive(h, az[h].req, az[h].sid)
    \/ \E h \in DOMAIN az : AzResolve(h)
    \/ \E h \in DOMAIN az : AzCreate(h)
    \/ \E resources \in GlobalResourceSets : SetGlobalResources("alice", resources)
    \/ \E sid \in LiveSessions, requested_scope \in {Nothing, Some({"openid"})} :
            RefreshSession(sid, requested_scope)

SpecImp == InitImp /\ [][NextImp]_vars

\* --------------------------------------------------------- the Cookie header
\* A Cookie header is the sequence of its lexical tokens: names, "=", ";", " ",
\* and the parts of a value (a value never holds ";").  A token is one atom of
\* the text, so that a name matches only as a whole, as it does in the header
\* between a separator and "=".
MaxCookies == 3

\* CookieService.CookieName, RootCookieDomain and ApplicationCookieDomains.
CookieName == "SeaCatSCI"
RootCookieDomain == "root.dom"
ApplicationCookieDomains == {"app.dom"}

\* The index of the first token `sep` of s at or after i, Len(s) + 1 if none.
RECURSIVE Find(_, _, _)
Find(s, sep, i) == IF i > Len(s) \/ s[i] = sep THEN i ELSE Find(s, sep, i + 1)

\* str.split(sep): the pieces of s between the tokens sep; one piece if none.
RECURSIVE Split(_, _)
Split(s, sep) ==
    LET i == Find(s, sep, 1) IN
    IF i > Len(s) THEN <<s>>
    ELSE <<SubSeq(s, 1, i - 1)>> \o Split(SubSeq(s, i + 1, Len(s)), sep)

\* http.cookies.SimpleCookie(cookie_string) for one piece of the header: leading
\* whitespace skipped, then name "=" value; nothing is loaded from a piece that
\* is not of this form.
SimpleCookie(cookie_string) ==
    LET start == CHOOSE i \in 1 .. Len(cookie_string) + 1 :
                    /\ \A j \in 1 .. i - 1 : cookie_string[j] = " "
                    /\ i > Len(cookie_string) \/ cookie_string[i] # " "
        body == SubSeq(cookie_string, start, Len(cookie_string))
    IN IF Len(body) >= 2 /\ body[1] \notin {"=", ":"} /\ body[2] = "="
       THEN Some([name |-> body[1], value |-> SubSeq(body, 3, Len(body))])
       ELSE Nothing

\* base64.urlsafe_b64decode of the encoded cookie ids in use; it raises
\* binascii.Error for a text that is not padded base64.
UrlsafeB64decode(encoded) ==
    IF encoded = << >> THEN ""
    ELSE IF encoded = <<"aWQx">> THEN "id1"
    ELSE IF encoded = <<"aWQy">> THEN "id2"
    ELSE "binascii.Error"

\* Mutant: the scan stops at the first cookie with the configured name.
RECURSIVE GetSessionCookieIdFirstOnly(_)
GetSessionCookieIdFirstOnly(cookie_strings) ==
    IF cookie_strings = << >> THEN None
    ELSE LET split_cookie == SimpleCookie(Head(cookie_strings)) IN
         IF split_cookie = Nothing \/ split_cookie[1].name # CookieName
         THEN GetSessionCookieIdFirstOnly(Tail(cookie_strings))
         ELSE LET value == split_cookie[1].value
                  colon == Find(value, ":", 1)
              IN IF colon <= Len(value)
                    /\ SubSeq(value, 1, colon - 1)
                        \in {<<d>> : d \in {RootCookieDomain} \cup ApplicationCookieDomains}
                 THEN UrlsafeB64decode(SubSeq(value, colon + 1, Len(value)))
                 ELSE None

\* The loop of _get_session_cookie_id over raw_cookies.split(";"): the id of
\* the first cookie of the configured name whose value has an accepted domain
\* before its first ":"; None when the loop ends.
RECURSIVE GetSessionCookieId(_)
GetSessionCookieId(cookie_strings) ==
    IF cookie_strings = << >> THEN None
    ELSE LET split_cookie == SimpleCookie(Head(cookie_strings)) IN
         IF split_cookie = Nothing \/ split_cookie[1].name # CookieName
         THEN GetSessionCookieId(Tail(cookie_strings))
         ELSE LET value == split_cookie[1].value
                  colon == Find(value, ":", 1)
              IN IF colon <= Len(value)
                    /\ SubSeq(value, 1, colon - 1)
                        \in {<<d>> : d \in {RootCookieDomain} \cup ApplicationCookieDomains}
                 THEN UrlsafeB64decode(SubSeq(value, colon + 1, Len(value)))
                 ELSE GetSessionCookieId(Tail(cookie_strings))

\* CookieHandler.CookiePattern, "(^{cookie}=[^;]*; ?|; ?{cookie}=[^;]*)": the
\* index after the match that starts at token i of s, 0 when none starts there.
CookiePatternMatch(s, i) ==
    LET name == IF i + 1 <= Len(s) /\ s[i + 1] = " " THEN i + 2 ELSE i + 1 IN
    IF i = 1 /\ Len(s) >= 2 /\ s[1] = CookieName /\ s[2] = "=" /\ Find(s, ";", 3) <= Len(s)
    THEN LET semicolon == Find(s, ";", 3) IN
         IF semicolon + 1 <= Len(s) /\ s[semicolon + 1] = " " THEN semicolon + 2
         ELSE semicolon + 1
    ELSE IF s[i] = ";" /\ name + 1 <= Len(s) /\ s[name] = CookieName /\ s[name + 1] = "="
    THEN Find(s, ";", name + 2)
    ELSE 0

\* CookiePattern.sub("", cookie_string) from token i on: every match, left to
\* right, is taken out.
RECURSIVE CookiePatternSub(_, _)
CookiePatternSub(s, i) ==
    IF i > Len(s) THEN << >>
    ELSE IF CookiePatternMatch(s, i) # 0 THEN CookiePatternSub(s, CookiePatternMatch(s, i))
    ELSE <<s[i]>> \o CookiePatternSub(s, i + 1)

\* SessionService.get_by(cookie.session_cookie_id, id): the root session whose
\* cookie id it is; session s carries the cookie id "id<s>".
SessionGetBySci(session_cookie_id) ==
    IF session_cookie_id = "id1" /\ LiveSession(1) /\ sessions[1].type = "root"
    THEN sessions[1]
    ELSE Gone

\* An introspection request: the Cookie header (None when absent) and the
\* keepcookie parameter; then what _get_session_cookie_id returned, and the reply.
NginxRequest(cookie, keepcookie) ==
    [op |-> "nginx", pc |-> "idle", cookie |-> cookie, keepcookie |-> keepcookie,
     session_cookie_id |-> None, status |-> 0, reply_cookie |-> Nothing]

\* CookieHandler.nginx up to the await of SessionService.touch: 401 when the
\* cookie leads to no session; the request dies with binascii.Error (500)
\* when the id of the accepted cookie cannot be decoded.
NginxLookup ==
    /\ call.op = "nginx"
    /\ call.pc = "idle"
    /\ LET session_cookie_id == IF call.cookie = Nothing THEN None
                                ELSE GetSessionCookieId(Split(call.cookie[1], ";"))
       IN call' = [call EXCEPT
                    !.session_cookie_id = session_cookie_id,
                    !.pc = IF session_cookie_id \in {"binascii.Error", None}
                                \/ IsGone(SessionGetBySci(session_cookie_id))
                           THEN "done" ELSE "touch",
                    !.status = IF session_cookie_id = "binascii.Error" THEN 500
                               ELSE IF session_cookie_id = None
                                        \/ IsGone(SessionGetBySci(session_cookie_id))
                               THEN 401 ELSE 0]
    /\ UNCHANGED <<worldVars, storeVars, tx, az, cookieReq, exchanged>>

\* ... and after it: 200 with the Cookie header, the SeaCat cookie taken out of
\* it by CookiePattern unless keepcookie is in the query.
NginxReply ==
    /\ call.op = "nginx"
    /\ call.pc = "touch"
    /\ call' = [call EXCEPT !.pc = "done", !.status = 200,
                    !.reply_cookie = IF call.keepcookie = None
                                     THEN Some(CookiePatternSub(call.cookie[1], 1))
                                     ELSE call.cookie]
    /\ UNCHANGED <<worldVars, storeVars, tx, az, cookieReq, exchanged>>

\* The cookies a user agent may send: SeaCat cookies of the root and of an
\* application domain, of a foreign domain, without a domain, with an id that
\* is no base64, and cookies of other names.
HeaderCookies ==
    {<<CookieName, "=", "root.dom", ":", "aWQx">>, <<CookieName, "=", "app.dom", ":", "aWQx">>,
     <<CookieName, "=", "app.dom", ":", "aWQy">>, <<CookieName, "=", "evil.dom", ":", "aWQx">>,
     <<CookieName, "=", "aWQx">>, <<CookieName, "=", "root.dom", ":", "a">>,
     <<"lang", "=", "en">>, <<"SeaCatSCIx", "=", "root.dom", ":", "aWQx">>}

\* "; ".join(cookies) for a separator sep.
RECURSIVE Join(_, _)
Join(cookies, sep) ==
    IF cookies = << >> THEN << >>
    ELSE IF Len(cookies) = 1 THEN cookies[1]
    ELSE cookies[1] \o sep \o Join(Tail(cookies), sep)

\* The Cookie headers of up to MaxCookies cookies, joined by "; " or by ";".
CookieHeaders ==
    {Join(cookies, sep) :
        cookies \in UNION {[1 .. n -> HeaderCookies] : n \in 0 .. MaxCookies},
        sep \in {<<";", " ">>, <<";">>}}

\* The cookies of a header as a user agent's parser reads them, in order.
Cookies(cookie_string) ==
    LET pieces == Split(cookie_string, ";")
        Loaded(piece) == SimpleCookie(piece) # Nothing
        loaded == SelectSeq(pieces, Loaded)
    IN [i \in 1 .. Len(loaded) |-> SimpleCookie(loaded[i])[1]]

\* The cookies of a header that have the SeaCat cookie name (seacat = TRUE), or
\* those that have another name.
CookiesNamed(cookie_string, seacat) ==
    LET Named(cookie) == (cookie.name = CookieName) = seacat
    IN SelectSeq(Cookies(cookie_string), Named)

\* ------------------------------------------------- the introspection machine
\* One introspection request of a user agent whose root session has the cookie
\* id "id1", drawn with its Cookie header.
InitNginx ==
    /\ InitWorld
    /\ sessions = << RootSession("alice", None, {"totp"}) >>
    /\ tokens = << >>
    /\ tx = [h \in TxHandlers |-> TxIdle]
    /\ az = [h \in {"a1"} |-> AzIdle]
    /\ cookieReq = CookieIdle
    /\ exchanged = {}
    /\ \E cookie \in {Nothing} \cup {Some(h) : h \in CookieHeaders}, keepcookie \in {None, "1"} :
            call = NginxRequest(cookie, keepcookie)

NextNginx ==
    \/ NginxLookup
    \/ NginxReply

SpecNginx == InitNginx /\ [][NextNginx]_vars

\* ------------------------------------------------------------------ userinfo
\* A Python value with its type: None, str, int, bool, a list or dict, or a
\* datetime of so many seconds and microseconds since the epoch.
Value(t, v) == [t |-> t, v |-> v]
Absent == Value("none", 0)

\* int(v.timestamp()) of a datetime: the whole seconds.
Timestamp(value) == Value("int", value.v[1])

\* The session a user-info projection is built from: an OIDC session or a root
\* session, with or without an expiration, with the credentials fields, the
\* impersonation and the track id it has.
UserinfoSession(oidc, exp, username, email, phone, modified, imp, track) ==
    [SessionId |-> Value("str", "sid-2"),
     CreatedAt |-> Value("datetime", <<1700000000, 500000>>),
     Expiration |-> IF exp THEN Value("datetime", <<1700003600, 250000>>) ELSE Absent,
     ParentSessionId |-> IF oidc THEN Value("str", "sid-1") ELSE Absent,
     ClientId |-> IF oidc THEN Value("str", "app1") ELSE Absent,
     Scope |-> IF oidc THEN Value("list", {"openid", "profile"}) ELSE Absent,
     Nonce |-> IF oidc THEN Value("str", "n-1") ELSE Absent,
     CredentialsId |-> Value("str", "alice"),
     Username |-> IF username THEN Value("str", "alice") ELSE Absent,
     Email |-> IF email THEN Value("str", "alice@example.org") ELSE Absent,
     Phone |-> IF phone THEN Value("str", "+420123456789") ELSE Absent,
     CustomData |-> Absent,
     ModifiedAt |-> IF modified THEN Value("datetime", <<1690000000, 0>>) ELSE Absent,
     CredentialsCreatedAt |-> Value("datetime", <<1680000000, 999999>>),
     Anonymous |-> FALSE,
     TrackId |-> IF track THEN Value("bytes", "000102030405060708090a0b0c0d0e0f") ELSE Absent,
     ImpersonatorSessionId |-> IF imp THEN Value("str", "sid-9") ELSE Absent,
     ImpersonatorCredentialsId |-> IF imp THEN Value("str", "admin") ELSE Absent,
     AvailableFactors |-> IF oidc THEN Value("list", {"password", "totp"}) ELSE Absent,
     LoginDescriptor |-> Value("str", "default"),
     LoginFactors |-> Value("list", {"password"}),
     ExternalLoginOptions |-> IF oidc THEN Value("dict", [google |-> "g-1", github |-> ""])
                              ELSE Absent,
     Authz |-> Value("dict", [c \in {"*"} |-> {}]),
     AssignedTenants |-> Value("list", {"t1"})]

\* build_userinfo(session): the claims of the session, a claim being left out
\* when its field is None, then every datetime among the values turned into
\* its integer timestamp.  has_activated_totp is the answer of the OTP service.
BuildUserinfo(session, has_activated_totp) ==
    LET impersonated == session.ImpersonatorSessionId.t # "none"
        track_id == IF session.TrackId.t = "none" THEN Absent
                    ELSE Value("str", "00010203-0405-0607-0809-0a0b0c0d0e0f")
        external == IF session.ExternalLoginOptions.t = "none" THEN Absent
                    ELSE LET options == session.ExternalLoginOptions.v IN
                         Value("list", {a \in DOMAIN options : options[a] # ""})
        fields == [iss |-> Value("str", "https://auth.example.org"),
                   sub |-> session.CredentialsId,
                   iat |-> session.CreatedAt,
                   sid |-> session.SessionId,
                   exp |-> session.Expiration,
                   psid |-> session.ParentSessionId,
                   aud |-> session.ClientId,
                   azp |-> session.ClientId,
                   scope |-> session.Scope,
                   nonce |-> session.Nonce,
                   preferred_username |-> session.Username,
                   username |-> session.Username,
                   email |-> session.Email,
                   phone_number |-> session.Phone,
                   phone |-> session.Phone,
                   custom |-> session.CustomData,
                   updated_at |-> session.ModifiedAt,
                   created_at |-> session.CredentialsCreatedAt,
                   anonymous |-> IF session.Anonymous THEN Value("bool", TRUE) ELSE Absent,
                   track_id |-> track_id,
                   impersonator_sid |-> session.ImpersonatorSessionId,
                   impersonator_cid |-> session.ImpersonatorCredentialsId,
                   totp_set |-> IF has_activated_totp THEN Value("bool", TRUE) ELSE Absent,
                   available_factors |-> session.AvailableFactors,
                   ldid |-> session.LoginDescriptor,
                   factors |-> session.LoginFactors,
                   external_login_enabled |-> external,
                   resources |-> session.Authz,
                   tenants |-> session.AssignedTenants]
        claims == {k \in DOMAIN fields :
                    \/ k \in {"iss", "sub", "iat", "sid"}
                    \/ k = "impersonator_cid" /\ impersonated
                    \/ k # "impersonator_cid" /\ fields[k].t # "none"}
    IN [k \in claims |-> IF fields[k].t = "datetime" THEN Timestamp(fields[k])
                         ELSE fields[k]]

\* The call of build_userinfo, as build_id_token and the user-info endpoint
\* make it.
BuildUserinfoCall ==
    /\ call.op = "build_userinfo"
    /\ call.pc = "idle"
    /\ call' = [call EXCEPT !.pc = "done",
                    !.userinfo = BuildUserinfo(call.session, call.has_activated_totp)]
    /\ UNCHANGED <<worldVars, storeVars, tx, az, cookieReq, exchanged>>

\* ------------------------------------------------------ the userinfo machine
\* One session, drawn with its fields, is projected to its claims.
InitUserinfo ==
    /\ InitWorld
    /\ sessions = << RootSession("alice", None, {"totp"}) >>
    /\ tokens = << >>
    /\ tx = [h \in TxHandlers |-> TxIdle]
    /\ az = [h \in {"a1"} |-> AzIdle]
    /\ cookieReq = CookieIdle
    /\ exchanged = {}
    /\ \E oidc, exp, username, email, phone, modified, imp, track, totp \in BOOLEAN :
            call = [op |-> "build_userinfo", pc |-> "idle",
                    session |-> UserinfoSession(oidc, exp, username, email, phone,
                                                modified, imp, track),
                    has_activated_totp |-> totp, userinfo |-> << >>]

NextUserinfo == BuildUserinfoCall

SpecUserinfo == InitUserinfo /\ [][NextUserinfo]_vars

\* ------------------------------------------------- the session lifecycle machine
\* One user authorizes an OIDC session, exchanges the code for tokens, and the
\* session is then refreshed and revoked while tokens expire and the tenant
\* assignments of the user change.
SessionAssigned == {"t1", "t2"}

SessionRequests ==
    {Req(scope, "app1", "code", "https://app1/cb", "xyz", None) :
        scope \in {{"openid", "profile"}, {"openid", "tenant:t2"},
                   {"openid", "profile", "tenant:t1"}}}

\* The scopes a client may ask for at a refresh of the session of handler h:
\* none, a part of the scope it was granted, all of it, and more than it.
RefreshScopes(h) ==
    {Nothing, Some({"openid"}), Some(az[h].req.scope), Some(az[h].req.scope \cup {"email"})}

InitSession ==
    /\ assigned = [c \in Creds |-> IF c = "alice" THEN SessionAssigned ELSE {}]
    /\ globalRes = [c \in Creds |-> IF c = "admin" THEN {"authz:superuser"} ELSE {}]
    /\ credFactors = [c \in Creds |-> {}]
    /\ lastTenants = [c \in Creds |-> << >>]
    /\ sessions = << RootSession("alice", None, {"totp"}) >>
    /\ tokens = << >>
    /\ tx = [h \in TxHandlers |-> TxIdle]
    /\ az \in [{"a1"} -> {[AzIdle EXCEPT !.req = req, !.sid = 1] : req \in SessionRequests}]
    /\ cookieReq = CookieIdle
    /\ call = NoCall
    /\ exchanged = {}

NextSession ==
    \/ \E h \in DOMAIN az : az[h].pc = "idle" /\ AzReceive(h, az[h].req, az[h].sid)
    \/ \E h \in DOMAIN az : AzResolve(h)
    \/ \E h \in DOMAIN az : AzCreate(h)
    \/ \E code \in TokenValues : TxLookup("t1", code, None)
    \/ TxLoad("t1")
    \/ TxDelete("t1")
    \/ TxIssue("t1")
    \/ \E value \in DOMAIN tokens, requested_scope \in RefreshScopes("a1") :
            /\ ~IsGone(GetSessionByRefreshToken(value))
            /\ RefreshSession(tokens[value].sid, requested_scope)
    \/ \E value \in TokenValues : RevokeToken(value)
    \/ \E value \in TokenValues : SweepExpired(value)
    \/ \E tenant \in Tenants : UnassignTenant("alice", tenant)
    \/ \E tenant \in Tenants : AssignTenant("alice", tenant)

SpecSession == InitSession /\ [][NextSession]_vars

C2_AtMostOneExchangePerCode ==
    \A e1, e2 \in exchanged : e1[2] = e2[2] => e1[1] = e2[1]

\* C3: every live session of type openidconnect has a parent that resolves to a
\* live root session, also when the authorize request that creates it races
\* with a prompt=login request that deletes the root.
C3_ParentIsLiveRoot ==
    \A s \in LiveSessions :
        sessions[s].type = "openidconnect" =>
            /\ LiveSession(sessions[s].parent)
            /\ sessions[sessions[s].parent].type = "root"

\* C4: the authz map of an OIDC session on an impersonated root holds neither
\* authz:superuser nor authz:impersonate in any entry, global or tenant, after
\* create_oidc_session and after every refresh_session.
C4_ImpersonatedAuthzExcludes ==
    \A s \in LiveSessions :
        (sessions[s].type = "openidconnect" /\ sessions[s].imp # None) =>
            \A k \in DOMAIN sessions[s].authz :
                sessions[s].authz[k] \cap {"authz:superuser", "authz:impersonate"} = {}

\* C4 witness: an OIDC session on an impersonated root was refreshed to a
\* narrower scope while the global roles of its user grant authz:superuser.
C4_Witness ==
    \E s \in LiveSessions :
        /\ sessions[s].type = "openidconnect"
        /\ sessions[s].imp # None
        /\ sessions[s].scope = {"openid"}
        /\ "authz:superuser" \in globalRes[sessions[s].cid]

\* The request passes the validation of its parameters.
ValidRequest(req) ==
    /\ req.scope # {}
    /\ req.client_id # None
    /\ req.redirect_uri # None
    /\ req.response_type = "code"
    /\ ~(req.client_id \in DOMAIN RegisteredRedirectUris
            /\ req.redirect_uri \notin RegisteredRedirectUris[req.client_id])
    /\ "openid" \in req.scope

\* C5: authorize creates a child session, and a code, only if the four required
\* parameters are present, response_type is code, openid is in the scope, prompt
\* is absent or none, the request came with a session of type root, every
\* tenant:<id> of the scope is authorized for the user and no factor is left to
\* set up; a request that comes with a non-root session deletes nothing.
C5_ChildOnlyIfAuthorized ==
    \A h \in DOMAIN az :
        /\ (az[h].created # NoSid \/ az[h].reply.code # 0) =>
            /\ ValidRequest(az[h].req)
            /\ az[h].req.prompt \in {None, "none"}
            /\ az[h].hadRoot
            /\ ~IsGone(az[h].root)
            /\ LET cid == az[h].root.cid
                   all == {"authz:superuser", "authz:tenant:access"} \cap globalRes[cid] # {}
               IN /\ \A r \in az[h].req.scope \cap {"tenant:t1", "tenant:t2", "tenant:ghost"} :
                        \/ TenantOfEntry(r) \in assigned[cid]
                        \/ all /\ TenantOfEntry(r) \in Tenants
                  /\ EnforceFactors \subseteq az[h].root.factors
                  /\ credFactors[cid] = {}
        /\ (az[h].pc # "idle" /\ az[h].sid # NoSid /\ ~az[h].hadRoot) =>
            /\ az[h].created = NoSid
            /\ az[h].deleted = {}
            /\ LiveSession(az[h].sid)

\* C5 witness: a child session and its code were created for a scope that names
\* a tenant.
C5_Witness ==
    \E h \in DOMAIN az :
        /\ az[h].created # NoSid
        /\ az[h].reply.code # 0
        /\ "tenant:t1" \in az[h].req.scope

\* C6: a valid request with prompt=none that comes with no root session is
\* answered with a redirect to its redirect_uri that carries
\* error=login_required and the state of the request; no session is created or
\* deleted and the cookie is not touched.
C6_LoginRequiredRedirect ==
    \A h \in DOMAIN az :
        (az[h].pc = "done" /\ ValidRequest(az[h].req) /\ az[h].req.prompt = "none"
            /\ ~az[h].hadRoot) =>
            /\ az[h].reply.status = 302
            /\ az[h].reply.location = az[h].req.redirect_uri
            /\ az[h].reply.error = "login_required"
            /\ az[h].reply.state = az[h].req.state
            /\ az[h].reply.cookie = "untouched"
            /\ az[h].created = NoSid
            /\ az[h].deleted = {}

\* C7: a valid request with prompt=login that comes with a root session deletes
\* that session before it replies; the reply is the 404 login redirect with the
\* cookie deleted and no code; a request that fails the validation of its
\* parameters deletes nothing.
C7_PromptLoginDeletesRoot ==
    \A h \in DOMAIN az :
        /\ (az[h].pc = "done" /\ ValidRequest(az[h].req) /\ az[h].req.prompt = "login"
                /\ az[h].hadRoot) =>
            /\ az[h].sid \in az[h].deleted
            /\ ~LiveSession(az[h].sid)
            /\ az[h].reply.status = 404
            /\ az[h].reply.location = LoginUi
            /\ az[h].reply.cookie = "deleted"
            /\ az[h].reply.code = 0
            /\ az[h].created = NoSid
        /\ (az[h].req.prompt = "login" /\ az[h].hadRoot /\ az[h].reply # NoReply) =>
                az[h].pc = "done"
        /\ (az[h].pc # "idle" /\ ~ValidRequest(az[h].req)) => az[h].deleted = {}

\* C7 witness: a prompt=login request has deleted the root session it came with,
\* and the OIDC session below it.
C7_Witness ==
    \E h \in DOMAIN az :
        /\ az[h].pc = "done"
        /\ az[h].req.prompt = "login"
        /\ az[h].deleted = {1, 2}

\* C8: a valid request with prompt=select_account that comes with a root session
\* is answered with the login redirect, and the step that answers it leaves the
\* Session Store and the Token Store as they are.
C8_SelectAccountKeepsStore ==
    [][\A h \in DOMAIN az :
        (az[h].pc = "idle" /\ az'[h].pc # "idle" /\ ValidRequest(az[h].req)
            /\ az[h].req.prompt = "select_account"
            /\ SessionGet(az[h].sid).type = "root") =>
            /\ az'[h].pc = "done"
            /\ az'[h].reply.status = 404
            /\ az'[h].reply.location = LoginUi
            /\ az'[h].created = NoSid
            /\ az'[h].deleted = {}
            /\ UNCHANGED storeVars]_vars

\* C8 witness: a prompt=select_account request that came with a root session was
\* answered, the root session still in the store.
C8_Witness ==
    \E h \in DOMAIN az :
        /\ az[h].pc = "done"
        /\ az[h].req.prompt = "select_account"
        /\ az[h].hadRoot
        /\ LiveSession(az[h].sid)
        /\ az[h].reply.location = LoginUi

\* C9: the parameters are validated in the order presence, client and
\* redirect_uri, response_type, openid, prompt, and the first failure decides the
\* error of the reply: a request with an unregistered redirect_uri and an
\* unsupported response_type is answered with invalid_redirect_uri.
C9_ValidationOrder ==
    \A h \in DOMAIN az :
        az[h].pc = "done" =>
            LET req == az[h].req IN
            IF req.scope = {} \/ req.client_id = None \/ req.response_type = None
                \/ req.redirect_uri = None
            THEN az[h].reply.error = "invalid_request"
            ELSE IF AuthorizeClient(req.client_id, req.redirect_uri) = "InvalidRedirectURI"
            THEN az[h].reply.error = "invalid_redirect_uri"
            ELSE IF req.response_type # "code"
            THEN az[h].reply.error = "invalid_request"
            ELSE IF "openid" \notin req.scope
            THEN az[h].reply.error = "invalid_scope"
            ELSE IF req.prompt \notin {None, "none", "login", "select_account"}
            THEN az[h].reply.error = "invalid_request"
            ELSE TRUE

\* C10: a request whose redirect_uri is not registered for the client is
\* answered inline: the reply is no HTTP redirect and never leads to the
\* redirect_uri of the request.
C10_InvalidRedirectUriInline ==
    \A h \in DOMAIN az :
        (az[h].pc = "done" /\ az[h].reply.error = "invalid_redirect_uri") =>
            /\ az[h].reply.status # 302
            /\ az[h].reply.location # az[h].req.redirect_uri

\* C11: a request that misses one of scope, client_id, response_type and
\* redirect_uri is answered with invalid_request; the reply is no redirect when
\* redirect_uri is the missing parameter, and goes to the redirect_uri when it
\* is present.
C11_MissingParameterReply ==
    \A h \in DOMAIN az :
        (az[h].pc = "done"
            /\ (az[h].req.scope = {} \/ az[h].req.client_id = None
                    \/ az[h].req.response_type = None \/ az[h].req.redirect_uri = None)) =>
            /\ az[h].reply.error = "invalid_request"
            /\ IF az[h].req.redirect_uri = None
               THEN az[h].reply.status # 302 /\ az[h].reply.location = None
               ELSE az[h].reply.location = az[h].req.redirect_uri

\* The error codes of the authorize endpoint.
AuthorizeErrorCodes ==
    {"invalid_request", "invalid_scope", "invalid_redirect_uri", "login_required",
     "unauthorized_tenant", "user_has_no_tenant", "tenant_not_found"}

\* C12: a request that presents a redirect_uri registered for its client and
\* ends in an error is answered with a redirect to that redirect_uri, the error
\* parameter one of the error codes and the state that of the request; so for an
\* unsupported response_type and for login_required.
C12_ErrorRedirectsCarryCodeAndState ==
    \A h \in DOMAIN az :
        (az[h].pc = "done" /\ az[h].reply.error # None
            /\ AuthorizeClient(az[h].req.client_id, az[h].req.redirect_uri) = "ok") =>
            /\ az[h].reply.status = 302
            /\ az[h].reply.location = az[h].req.redirect_uri
            /\ az[h].reply.error \in AuthorizeErrorCodes
            /\ az[h].reply.state = az[h].req.state

\* The request came with a root session and passed the validation and the
\* prompt handling: the handler goes on as authenticated.
Authenticated(h) ==
    /\ az[h].hadRoot
    /\ ValidRequest(az[h].req)
    /\ az[h].req.prompt \in {None, "none"}

\* C13: an authenticated request whose scope names a tenant that is not
\* assigned to the user, the user holding neither authz:superuser nor
\* authz:tenant:access, is answered with a redirect to redirect_uri with
\* error=unauthorized_tenant and the state of the request, and creates neither
\* session nor code, whatever else the scope holds.
C13_UnassignedTenantRefused ==
    \A h \in DOMAIN az :
        (az[h].pc = "done" /\ Authenticated(h)
            /\ globalRes[az[h].root.cid] \cap {"authz:superuser", "authz:tenant:access"} = {}
            /\ \E r \in az[h].req.scope \cap {"tenant:t1", "tenant:t2", "tenant:ghost"} :
                    TenantOfEntry(r) \notin assigned[az[h].root.cid]) =>
            /\ az[h].reply.status = 302
            /\ az[h].reply.location = az[h].req.redirect_uri
            /\ az[h].reply.error = "unauthorized_tenant"
            /\ az[h].reply.state = az[h].req.state
            /\ az[h].reply.code = 0
            /\ az[h].created = NoSid

\* C13 witness: the scope names an assigned tenant next to the unassigned one,
\* and the request was refused.
C13_Witness ==
    \E h \in DOMAIN az :
        /\ az[h].pc = "done"
        /\ Authenticated(h)
        /\ az[h].req.scope = {"openid", "tenant:t1", "tenant:t2"}
        /\ assigned[az[h].root.cid] = {"t1"}
        /\ az[h].reply.error = "unauthorized_tenant"

\* C14: for an authenticated user with access to all tenants, a scope entry
\* that names a tenant that does not exist makes authorize fail with the error
\* tenant_not_found, and an entry that names an existing tenant is accepted,
\* assigned or not.
C14_TenantNotFoundError ==
    \A h \in DOMAIN az :
        (az[h].pc = "done" /\ Authenticated(h)
            /\ globalRes[az[h].root.cid] \cap {"authz:superuser", "authz:tenant:access"} # {}) =>
            IF "tenant:ghost" \in az[h].req.scope
            THEN az[h].reply.error = "tenant_not_found"
            ELSE az[h].reply.error # "unauthorized_tenant"

\* C15: an authenticated request whose scope holds tenant:*, from a user with no
\* tenant assigned, fails with user_has_no_tenant and creates no session, with
\* or without a bare tenant entry in the scope.
C15_WildcardWithoutTenantsFails ==
    \A h \in DOMAIN az :
        (az[h].pc = "done" /\ Authenticated(h)
            /\ "tenant:*" \in az[h].req.scope
            /\ assigned[az[h].root.cid] = {}) =>
            /\ az[h].reply.error = "user_has_no_tenant"
            /\ az[h].created = NoSid

\* C16: when the scope holds the bare entry tenant and its tenant: entries
\* resolved to no tenant, the tenant picked is the most recently authorized one
\* of the audit history that is still assigned to the user; without such a
\* tenant it is one of the assigned tenants, and without assigned tenants the
\* request fails with user_has_no_tenant.  The tenant picked is always assigned.
C16_BareTenantPick ==
    \A h \in DOMAIN az :
        (az[h].pc \in {"create", "done"} /\ az[h].created = NoSid /\ Authenticated(h)
            /\ "tenant" \in az[h].req.scope
            /\ \/ az[h].req.scope \cap TenantEntries = {}
               \/ /\ az[h].req.scope \cap TenantEntries = {"tenant:*"}
                  /\ assigned[az[h].root.cid] = {}) =>
            LET user_tenants == assigned[az[h].root.cid]
                last == lastTenants[az[h].root.cid]
                recent == {i \in DOMAIN last : last[i] \in user_tenants}
            IN /\ az[h].tenants \subseteq user_tenants
               /\ IF recent # {}
                  THEN \E i \in recent :
                        /\ \A j \in recent : i <= j
                        /\ az[h].tenants = {last[i]}
                  ELSE IF user_tenants # {}
                  THEN Cardinality(az[h].tenants) = 1
                  ELSE az[h].reply.error = "user_has_no_tenant"

\* C16 witness: the audit history names t2 before t1, t2 is no longer assigned,
\* and t1 was picked.
C16_Witness ==
    \E h \in DOMAIN az :
        /\ az[h].pc = "create"
        /\ az[h].req.scope = {"openid", "tenant"}
        /\ lastTenants[az[h].root.cid] = <<"t2", "t1">>
        /\ assigned[az[h].root.cid] = {"t1"}
        /\ az[h].tenants = {"t1"}

\* C17: the factors that _get_factors_to_setup returns are the globally enforced
\* factors and the factors enforced on the credentials, without the factor
\* types of the login descriptor of the session.
C17_FactorsToSetup ==
    \A h \in DOMAIN az :
        (Authenticated(h)
            /\ (az[h].pc = "create" \/ az[h].reply.step \in {"factors", "success"})) =>
            az[h].factors_to_setup =
                (EnforceFactors \cup credFactors[az[h].root.cid]) \ az[h].root.factors

\* C18: every successful authorize reply is a 302 to redirect_uri that carries a
\* freshly minted code of the created session and the state of the request;
\* with cookie in the scope the session cookie is set as well, the code still
\* in the reply.
C18_SuccessCarriesCode ==
    \A h \in DOMAIN az :
        az[h].reply.step = "success" =>
            /\ az[h].reply.status = 302
            /\ az[h].reply.location = az[h].req.redirect_uri
            /\ az[h].reply.state = az[h].req.state
            /\ az[h].reply.code \in DOMAIN tokens
            /\ "cookie" \in az[h].req.scope => az[h].reply.cookie = "set"

\* C19: the code minted for an authorize request that carries code_challenge
\* and code_challenge_method is stored with that challenge and method, and its
\* exchange without the verifier fails.
C19_CodeBoundToChallenge ==
    \A h \in DOMAIN az :
        (az[h].reply.step = "success" /\ az[h].req.code_challenge # None
            /\ ~IsGone(TokenGet(az[h].reply.code, "oac"))) =>
            /\ TokenGet(az[h].reply.code, "oac").cc = az[h].req.code_challenge
            /\ TokenGet(az[h].reply.code, "oac").ccm = az[h].req.code_challenge_method
            /\ IsGone(AuthorizationCodeLookup(az[h].reply.code, None))

\* C20: get_session_by_authorization_code yields the session of a code that is
\* bound to a code challenge only if the code_verifier answers the challenge
\* (for S256: its hash equals the challenge); no verifier or a wrong one never
\* passes, and the challenge is evaluated before the session is loaded.
C20_PkceBeforeSession ==
    /\ \A code \in TokenValues, verifier \in {None} \cup Verifiers :
            (TokenGet(code, "oac").type = "oac" /\ TokenGet(code, "oac").cc # None
                /\ ~IsGone(AuthorizationCodeLookup(code, verifier))) =>
                /\ verifier # None
                /\ TokenGet(code, "oac").ccm = "S256"
                        => Sha256B64(verifier) = TokenGet(code, "oac").cc
    /\ \A h \in DOMAIN tx :
            (tx[h].pc = "load" /\ TokenGet(tx[h].code, "oac").type = "oac"
                /\ TokenGet(tx[h].code, "oac").cc # None) =>
                /\ tx[h].verifier # None
                /\ Sha256B64(tx[h].verifier) = TokenGet(tx[h].code, "oac").cc

\* C20 witness: a handler is about to load the session of a code bound to the
\* S256 challenge of v1, having presented v1.
C20_Witness ==
    \E h \in DOMAIN tx :
        /\ tx[h].pc = "load"
        /\ TokenGet(tx[h].code, "oac").type = "oac"
        /\ TokenGet(tx[h].code, "oac").cc = Sha256B64("v1")
        /\ tx[h].verifier = "v1"

\* C21: a token of one type never resolves where another type is expected: for
\* every live token of the store, each lookup for a type other than its own
(* (authorization code, access token, refresh token) yields not found and no
   session. *)
C21_TokenTypesSeparate ==
    \A v \in DOMAIN tokens :
        ~IsGone(tokens[v]) =>
            /\ tokens[v].type # "oac" =>
                    /\ \A verifier \in {None} \cup Verifiers :
                            IsGone(AuthorizationCodeLookup(v, verifier))
                    /\ ~PopSessionIdByAuthorizationCode(v).found
            /\ tokens[v].type # "oat" => IsGone(GetSessionByAccessToken(v))
            /\ tokens[v].type # "ort" => IsGone(GetSessionByRefreshToken(v))

\* C21 witness: the store holds a live code, a live access token and a live
\* refresh token, and each resolves through the lookup of its own type.
C21_Witness ==
    /\ \E v \in DOMAIN tokens : ~IsGone(AuthorizationCodeLookup(v, None))
    /\ \E v \in DOMAIN tokens : ~IsGone(GetSessionByAccessToken(v))
    /\ \E v \in DOMAIN tokens : ~IsGone(GetSessionByRefreshToken(v))

RefreshTenantsRefused(root_session, granted_scope) ==
    GetAccessibleTenantFromScope(granted_scope, assigned[root_session.cid],
        UserHasAccessToAllTenants(BuildAuthz(root_session.cid, Nothing,
                                             ExcludeResources(root_session))),
        lastTenants[root_session.cid]) = {}

\* C23: a refresh_session call whose requested scope is not a subset of the
\* scope of the session raises AccessDeniedError (the spec's invalid_scope), so
\* does a call whose scope resolves to no tenant, and a call that raises leaves
\* every stored session as it was.
C23_RefusedRefreshKeepsSession ==
    [][(call' # call /\ call'.op = "refresh_session") =>
        LET session == sessions[call'.sid]
            root_session == SessionGet(session.parent)
            requested_scope == call'.requested_scope
            granted_scope == IF requested_scope = Nothing THEN session.scope
                             ELSE requested_scope[1]
        IN /\ (requested_scope # Nothing /\ ~(requested_scope[1] \subseteq session.scope))
                => call'.result = "AccessDeniedError"
           /\ (~IsGone(root_session) /\ RefreshTenantsRefused(root_session, granted_scope))
                => call'.result = "AccessDeniedError"
           /\ call'.result # "ok" => sessions' = sessions]_vars

\* C23 witness: the last refresh asked for an entry the live session was not
\* granted and was refused.
C23_Witness ==
    /\ call.op = "refresh_session"
    /\ call.result = "AccessDeniedError"
    /\ LiveSession(call.sid)
    /\ call.requested_scope # Nothing
    /\ "email" \in call.requested_scope[1] \ sessions[call.sid].scope

\* C24: while the tenant assignments of the user are what they were at
\* authorization, a refresh_session call that asks for the scope the authorize
\* request was granted succeeds, whatever earlier refreshes asked for.
C24_OriginalScopeRefreshSucceeds ==
    [][\A h \in DOMAIN az :
        (/\ call' # call
         /\ call'.op = "refresh_session"
         /\ call'.sid = az[h].created
         /\ call'.requested_scope = Some(az[h].req.scope)
         /\ assigned["alice"] = SessionAssigned)
            => call'.result = "ok"]_vars

\* C25: the OIDC session a successful authorize request mints is built for the
\* tenants authorize resolved from the scope and with the expiration the
\* request asked for: the keys of its authz map are "*" and the resolved
\* tenants, and its expiration is the requested one.
C25_SessionTiedToResolvedTenants ==
    \A h \in DOMAIN az :
        az[h].created # NoSid =>
            LET session == sessions[az[h].created]
                req == az[h].req
            IN /\ DOMAIN session.authz = {"*"} \cup az[h].tenants
               /\ session.expiration = IF req.expiration = None THEN Nothing
                                       ELSE Some(ParseInt(req.expiration))

\* The cookie has the configured name and, before the first ":" of its value,
\* the root cookie domain or an application domain.
AcceptedCookie(cookie) ==
    /\ cookie.name = CookieName
    /\ \E k \in 1 .. Len(cookie.value) :
        /\ cookie.value[k] = ":"
        /\ \A j \in 1 .. k - 1 : cookie.value[j] # ":"
        /\ SubSeq(cookie.value, 1, k - 1)
            \in {<<d>> : d \in {RootCookieDomain} \cup ApplicationCookieDomains}

\* C26: _get_session_cookie_id returns the decoded id of the first cookie of
\* the header that has the configured name and an accepted domain before the
\* first ":" of its value; cookies of another name, without a prefix or with
\* another domain yield nothing and do not stop the scan; None without a Cookie
\* header or without such a cookie.
C26_FirstAcceptedCookieId ==
    (call.op = "nginx" /\ call.pc # "idle") =>
        IF call.cookie = Nothing THEN call.session_cookie_id = None
        ELSE LET accepted == SelectSeq(Cookies(call.cookie[1]), AcceptedCookie) IN
             IF accepted = << >> THEN call.session_cookie_id = None
             ELSE LET value == accepted[1].value
                      encoded == SubSeq(value, Find(value, ":", 1) + 1, Len(value))
                  IN call.session_cookie_id = UrlsafeB64decode(encoded)

\* C26 witness: the header begins with SeaCat cookies that are not accepted
\* (a foreign domain, no domain), and the id of the accepted cookie behind
\* them was returned.
C26_Witness ==
    /\ call.op = "nginx"
    /\ call.pc # "idle"
    /\ call.cookie # Nothing
    /\ LET cookies == Cookies(call.cookie[1]) IN
        /\ Len(cookies) = 3
        /\ cookies[1].name = CookieName /\ ~AcceptedCookie(cookies[1])
        /\ cookies[2].name = CookieName /\ ~AcceptedCookie(cookies[2])
        /\ cookies[1] # cookies[2]
        /\ AcceptedCookie(cookies[3])
    /\ call.session_cookie_id = "id1"

\* C27: a successful introspection without keepcookie returns a Cookie header
\* with no cookie of the SeaCat name and with the other cookies of the request
\* in their order, wherever the SeaCat cookie stood and also when it was the
\* only cookie; with keepcookie the header comes back unchanged.
C27_IntrospectStripsSeaCatCookie ==
    (call.op = "nginx" /\ call.status = 200) =>
        IF call.keepcookie = None
        THEN /\ CookiesNamed(call.reply_cookie[1], TRUE) = << >>
             /\ CookiesNamed(call.reply_cookie[1], FALSE) = CookiesNamed(call.cookie[1], FALSE)
        ELSE call.reply_cookie = call.cookie

\* C28: the stripping of a successful introspection takes exactly one cookie
\* of the SeaCat name out of the header and keeps the other cookies, also when
\* the header holds several cookies of that name.
C28_StripsExactlyOneOccurrence ==
    (call.op = "nginx" /\ call.status = 200 /\ call.keepcookie = None) =>
        /\ Len(CookiesNamed(call.reply_cookie[1], TRUE))
                = Len(CookiesNamed(call.cookie[1], TRUE)) - 1
        /\ CookiesNamed(call.reply_cookie[1], FALSE) = CookiesNamed(call.cookie[1], FALSE)

\* C29: GET /cookie/entry/{domain_id} replies 400 when domain_id is no
\* configured application domain, when grant_type is not authorization_code
\* and when the code resolves to no session; it never ends in an unhandled
\* exception.
C29_UnknownDomainReplies400 ==
    cookieReq.result # None =>
        /\ cookieReq.domain_id \notin ApplicationCookies => cookieReq.result = "400"
        /\ cookieReq.grant_type # "authorization_code" => cookieReq.result = "400"
        /\ cookieReq.result \in {"400", "302"}

\* The claim names of section 6.2 of the specification.
Section62Claims ==
    {"iss", "sub", "iat", "sid", "exp", "psid", "aud", "azp", "scope", "nonce",
     "preferred_username", "email", "phone_number", "custom", "updated_at", "created_at",
     "anonymous", "track_id", "impersonator_sid", "impersonator_cid", "totp_set",
     "available_factors", "ldid", "factors", "external_login_enabled", "resources",
     "tenants"}

\* C30: the claim set build_userinfo produces, which build_id_token signs as
\* it is, always holds iss, sub, iat and sid, holds no claim name outside the
\* list of section 6.2, and holds no datetime: what was one in the session is
\* its integer number of seconds.
C30_UserinfoClaimSet ==
    (call.op = "build_userinfo" /\ call.pc = "done") =>
        /\ {"iss", "sub", "iat", "sid"} \subseteq DOMAIN call.userinfo
        /\ DOMAIN call.userinfo \subseteq Section62Claims
        /\ \A k \in DOMAIN call.userinfo : call.userinfo[k].t # "datetime"
        /\ call.userinfo["iat"] = Value("int", call.session.CreatedAt.v[1])

\* ------------------------------------------------------------- LDAP provider
\* What simple_bind_s(dn, password) may do: succeed, or raise.  A bind with no
\* or an empty password is an unauthenticated bind, which a directory accepts,
\* refuses as invalid credentials or refuses as unwilling, as it is configured;
\* the server may be down for any bind.  The directory holds the password
\* "secret" for the DN of the credentials.
SimpleBindS(password) ==
    {"SERVER_DOWN"} \cup
        IF password \in {None, ""} THEN {"ok", "INVALID_CREDENTIALS", "UNWILLING_TO_PERFORM"}
        ELSE IF password = "secret" THEN {"ok"} ELSE {"INVALID_CREDENTIALS"}

\* The jobs handed to the proactor: one of the workers, for authenticate with
\* the password of the login request (None when it has none).  conn is the
\* _LDAPObject the job made, bind the password its simple_bind_s of the DN was
\* called with.
LdapJobs ==
    LET LdapJob(kind, password) ==
            [kind |-> kind, password |-> password, pc |-> "idle", conn |-> NoSid,
             bind |-> Nothing, result |-> None]
    IN {LdapJob(kind, None) : kind \in {"get", "search", "count", "locate"}}
        \cup {LdapJob("authenticate", password) : password \in {None, "", "secret", "wrong"}}

\* The job makes its _LDAPObject and sets its options.
LdapObject(j) ==
    /\ call.op = "ldap"
    /\ call.jobs[j].pc = "idle"
    /\ call' = [call EXCEPT !.conns = Append(call.conns, "open"),
                    !.jobs[j].conn = Len(call.conns) + 1,
                    !.jobs[j].pc = IF call.jobs[j].kind = "authenticate"
                                   THEN "authenticate" ELSE "client"]
    /\ UNCHANGED <<worldVars, storeVars, tx, az, cookieReq, exchanged>>

\* _ldap_client binds the connection as the service account before it enters
\* the try block: when the bind raises, nothing is unbound.
LdapClient(j) ==
    /\ call.op = "ldap"
    /\ call.jobs[j].pc = "client"
    /\ \E outcome \in {"ok", "SERVER_DOWN"} :
            call' = IF outcome = "ok"
                    THEN [call EXCEPT !.conns[call.jobs[j].conn] = "bound",
                                      !.jobs[j].pc = "with"]
                    ELSE [call EXCEPT !.jobs[j].pc = "done", !.jobs[j].result = outcome]
    /\ UNCHANGED <<worldVars, storeVars, tx, az, cookieReq, exchanged>>

\* The body of `with self._ldap_client()` of a worker: the operation returns
\* or raises, and the finally clause unbinds the connection.
LdapWorker(j) ==
    /\ call.op = "ldap"
    /\ call.jobs[j].pc = "with"
    /\ \E outcome \in {"ok", "NO_SUCH_OBJECT", "SERVER_DOWN"} :
            call' = [call EXCEPT !.conns[call.jobs[j].conn] = "unbound",
                                 !.jobs[j].pc = "done",
                                 !.jobs[j].result = IF outcome = "NO_SUCH_OBJECT"
                                                       /\ call.jobs[j].kind = "get"
                                                    THEN "KeyError" ELSE outcome]
    /\ UNCHANGED <<worldVars, storeVars, tx, az, cookieReq, exchanged>>

\* _authenticate_worker binds the DN with credentials.get("password"): True
\* after unbind_s when the bind succeeded, False when it raised
\* INVALID_CREDENTIALS, and any other error leaves the worker as it is.
AuthenticateWorker(j) ==
    /\ call.op = "ldap"
    /\ call.jobs[j].pc = "authenticate"
    /\ \E outcome \in SimpleBindS(call.jobs[j].password) :
            call' = [call EXCEPT !.conns[call.jobs[j].conn] =
                                        IF outcome = "ok" THEN "unbound" ELSE "open",
                                 !.jobs[j].bind = Some(call.jobs[j].password),
                                 !.jobs[j].pc = "done",
                                 !.jobs[j].result = IF outcome = "ok" THEN "True"
                                                    ELSE IF outcome = "INVALID_CREDENTIALS"
                                                    THEN "False" ELSE outcome]
    /\ UNCHANGED <<worldVars, storeVars, tx, az, cookieReq, exchanged>>

\* ----------------------------------------------------------- the LDAP machine
\* Two jobs run in the threads of the proactor, each drawn with its arguments.
InitLdap ==
    /\ InitWorld
    /\ sessions = << >>
    /\ tokens = << >>
    /\ tx = [h \in TxHandlers |-> TxIdle]
    /\ az = [h \in {"a1"} |-> AzIdle]
    /\ cookieReq = CookieIdle
    /\ exchanged = {}
    /\ \E jobs \in [{"j1", "j2"} -> LdapJobs] :
            call = [op |-> "ldap", jobs |-> jobs, conns |-> << >>]

NextLdap ==
    \/ \E j \in {"j1", "j2"} : LdapObject(j)
    \/ \E j \in {"j1", "j2"} : LdapClient(j)
    \/ \E j \in {"j1", "j2"} : LdapWorker(j)
    \/ \E j \in {"j1", "j2"} : AuthenticateWorker(j)

SpecLdap == InitLdap /\ [][NextLdap]_vars

\* C31: every LDAP job (get, search, count, locate, authenticate) has unbound
\* the connection it opened when it ends, however it ends: on a normal return,
\* on an error of the operation and on a refused authentication.
C31_JobUnbindsItsConnection ==
    call.op = "ldap" =>
        \A j \in DOMAIN call.jobs :
            call.jobs[j].pc = "done" => call.conns[call.jobs[j].conn] = "unbound"

\* C40: LDAP authenticate never binds with an absent or empty password and
\* never returns True for one: True only after a bind of the DN with the
\* non-empty password of the caller, on a connection of this job alone.
C40_NoBindWithoutPassword ==
    call.op = "ldap" =>
        \A j \in DOMAIN call.jobs :
            /\ call.jobs[j].bind # Nothing => call.jobs[j].bind[1] \notin {None, ""}
            /\ call.jobs[j].result = "True" =>
                    /\ call.jobs[j].password \notin {None, ""}
                    /\ call.jobs[j].bind = Some(call.jobs[j].password)
                    /\ \A k \in DOMAIN call.jobs \ {j} : call.jobs[k].conn # call.jobs[j].conn

\* ------------------------------------------------------------ tenant service
\* The longest run of one character in the tenant ids a client is drawn with.
MaxRun == 33

\* The tenant ids of create requests: a first character, a run of up to MaxRun
\* name characters and an end; and ids that mix the name characters.
TenantIds ==
    {<<first>> \o [i \in 1 .. n |-> c] \o end :
        first \in {"a", "Z", "1", "_"}, n \in 0 .. MaxRun, c \in {"b", "-"},
        end \in {<< >>, <<"\n">>, <<" ">>, <<"\n", "\n">>, <<"\n", "c">>, <<"!", "c">>}}
    \cup {<<"a", ".", "_", "-", "9", "Z">>, <<"a", "b", " ", "c">>, << >>}

\* TenantNameRegex.match(tenant_id) of ^[a-zA-Z][a-zA-Z0-9._-]{2,31}$ : a
\* letter, then k of the name characters, 2 <= k <= 31, then $, which matches
\* at the end of the string and before a newline that ends the string.
TenantNameRegexMatch(tenant_id) ==
    LET n == Len(tenant_id)
        letters == {"a", "b", "c", "Z"}
        class == letters \cup {"1", "9", ".", "_", "-"}
        Dollar(pos) == pos = n \/ (pos = n - 1 /\ tenant_id[n] = "\n")
    IN /\ n >= 1
       /\ tenant_id[1] \in letters
       /\ \E k \in 2 .. 31 :
            /\ 1 + k <= n
            /\ \A i \in 2 .. (1 + k) : tenant_id[i] \in class
            /\ Dollar(1 + k)

\* create_tenant up to the await of the provider: INVALID-VALUE when the id
\* does not match.
CreateTenantMatch ==
    /\ call.op = "create_tenant"
    /\ call.pc = "match"
    /\ call' = IF TenantNameRegexMatch(call.tenant_id)
               THEN [call EXCEPT !.pc = "create"]
               ELSE [call EXCEPT !.pc = "done", !.result = "INVALID-VALUE"]
    /\ UNCHANGED <<worldVars, storeVars, tx, az, cookieReq, exchanged>>

\* TenantsProvider.create and the rest of create_tenant: CONFLICT on
\* DuplicateError, FAILED when the provider returns None, else OK.
CreateTenantCreate ==
    /\ call.op = "create_tenant"
    /\ call.pc = "create"
    /\ \E returned \in {"id", None} :
            call' = [call EXCEPT
                        !.pc = "done",
                        !.created = Some(call.tenant_id),
                        !.result = IF call.tenant_id \in call.tenants THEN "CONFLICT"
                                   ELSE IF returned = None THEN "FAILED" ELSE "OK",
                        !.tenants = IF returned = None THEN @ ELSE @ \cup {call.tenant_id}]
    /\ UNCHANGED <<worldVars, storeVars, tx, az, cookieReq, exchanged>>

\* One create_tenant call, drawn with its id, for a provider that holds the
\* tenant "abc" and, or not, a tenant of the id of the call.
InitCreateTenant ==
    /\ InitWorld
    /\ sessions = << >>
    /\ tokens = << >>
    /\ tx = [h \in TxHandlers |-> TxIdle]
    /\ az = [h \in {"a1"} |-> AzIdle]
    /\ cookieReq = CookieIdle
    /\ exchanged = {}
    /\ \E tenant_id \in TenantIds, exists \in BOOLEAN :
            call = [op |-> "create_tenant", pc |-> "match", tenant_id |-> tenant_id,
                    exists |-> exists, created |-> Nothing, result |-> None,
                    tenants |-> {<<"a", "b", "c">>}
                                    \cup IF exists THEN {tenant_id} ELSE {}]

NextCreateTenant ==
    \/ CreateTenantMatch
    \/ CreateTenantCreate

SpecCreateTenant == InitCreateTenant /\ [][NextCreateTenant]_vars

\* C32: every tenant id that create_tenant passes to the provider is a letter
\* followed by 2 to 31 characters of [A-Za-z0-9._-] and nothing else (3 to 32
\* characters); every other id gets INVALID-VALUE and does not reach the
\* provider; a duplicate id gets CONFLICT.
C32_OnlyTenantNamesReachProvider ==
    LET tenant_id == call.tenant_id
        TenantName ==
            /\ Len(tenant_id) \in 3 .. 32
            /\ tenant_id[1] \in {"a", "b", "c", "Z"}
            /\ \A i \in 2 .. Len(tenant_id) :
                    tenant_id[i] \in {"a", "b", "c", "Z", "1", "9", ".", "_", "-"}
    IN (call.op = "create_tenant" /\ call.pc = "done") =>
            /\ call.created # Nothing => TenantName
            /\ ~TenantName => (call.result = "INVALID-VALUE" /\ call.created = Nothing)
            /\ (TenantName /\ call.exists) => call.result = "CONFLICT"

\* Mutant: set_tenants validates nothing.
SetTenantsValidateNothing ==
    /\ call.op = "set_tenants"
    /\ call.pc = "validate"
    /\ call' = [call EXCEPT !.pc = "apply",
                    !.tenants_to_assign = call.tenants \ call.before,
                    !.tenants_to_unassign = call.before \ call.tenants]
    /\ UNCHANGED <<worldVars, storeVars, tx, az, cookieReq, exchanged>>

\* set_tenants up to its first provider write: NOT-FOUND when the credentials
\* do not exist; the difference of the requested and the assigned tenants; and
\* the loop over the difference, which returns at the first tenant it meets
\* that does not exist (NOT-FOUND) or that the session may not administer
\* (NOT-AUTHORIZED).  The loop runs over a set, in any order.
SetTenantsValidate ==
    /\ call.op = "set_tenants"
    /\ call.pc = "validate"
    /\ IF call.cid \notin Creds
       THEN call' = [call EXCEPT !.pc = "done", !.result = "NOT-FOUND"]
       ELSE LET existing_tenants == assigned[call.cid]
                tenants_to_assign == call.tenants \ existing_tenants
                tenants_to_unassign == existing_tenants \ call.tenants
                refused == {tenant \in tenants_to_assign \cup tenants_to_unassign :
                                tenant \notin call.exists \/ tenant \notin call.admin_of}
            IN IF refused = {}
               THEN call' = [call EXCEPT !.pc = "apply",
                                 !.tenants_to_assign = tenants_to_assign,
                                 !.tenants_to_unassign = tenants_to_unassign]
               ELSE \E tenant \in refused :
                        call' = [call EXCEPT !.pc = "done",
                                     !.result = IF tenant \notin call.exists
                                                THEN "NOT-FOUND" ELSE "NOT-AUTHORIZED"]
    /\ UNCHANGED <<worldVars, storeVars, tx, az, cookieReq, exchanged>>

\* One round of the two loops that write: TenantsProvider.assign_tenant for a
\* tenant to assign, and after those unassign_tenant for a tenant to unassign.
\* A result of the provider other than OK is counted and nothing else.
SetTenantsApply ==
    /\ call.op = "set_tenants"
    /\ call.pc = "apply"
    /\ \E data \in {"OK", "FAILED"} :
         \E tenant \in IF call.tenants_to_assign # {} THEN call.tenants_to_assign
                       ELSE call.tenants_to_unassign :
            /\ call' = [call EXCEPT
                            !.tenants_to_assign = @ \ {tenant},
                            !.tenants_to_unassign = IF call.tenants_to_assign # {}
                                                    THEN @ ELSE @ \ {tenant},
                            !.provider_calls = @ + 1,
                            !.failed_count = IF data # "OK" THEN @ + 1 ELSE @]
            /\ assigned' = IF data # "OK" THEN assigned
                           ELSE IF call.tenants_to_assign # {}
                           THEN [assigned EXCEPT ![call.cid] = @ \cup {tenant}]
                           ELSE [assigned EXCEPT ![call.cid] = @ \ {tenant}]
    /\ UNCHANGED <<globalRes, credFactors, lastTenants, storeVars, tx, az, cookieReq,
                   exchanged>>

\* After the loops set_tenants logs the counts and returns OK.
SetTenantsReturn ==
    /\ call.op = "set_tenants"
    /\ call.pc = "apply"
    /\ call.tenants_to_assign = {}
    /\ call.tenants_to_unassign = {}
    /\ call' = [call EXCEPT !.pc = "done", !.result = "OK"]
    /\ UNCHANGED <<worldVars, storeVars, tx, az, cookieReq, exchanged>>

\* One set_tenants call, drawn with the credentials (ghost has none), the
\* requested tenants, the tenants the caller's session administers, the
\* tenants of the provider and the tenants assigned before the call.
InitSetTenants ==
    /\ \E before \in {{}, {"t1"}, {"t1", "t3"}} :
         /\ assigned = [c \in Creds |-> IF c = "alice" THEN before ELSE {}]
         /\ \E cid \in {"alice", "ghost"}, tenants, admin_of \in SUBSET {"t1", "t2", "t3"} :
              \E exists \in {{"t1", "t2"}, {"t1", "t2", "t3"}} :
                call = [op |-> "set_tenants", pc |-> "validate", cid |-> cid,
                        tenants |-> tenants, admin_of |-> admin_of, exists |-> exists,
                        before |-> IF cid = "alice" THEN before ELSE {},
                        tenants_to_assign |-> {}, tenants_to_unassign |-> {},
                        provider_calls |-> 0, failed_count |-> 0, result |-> None]
    /\ globalRes = [c \in Creds |-> {}]
    /\ credFactors = [c \in Creds |-> {}]
    /\ lastTenants = [c \in Creds |-> << >>]
    /\ sessions = << >>
    /\ tokens = << >>
    /\ tx = [h \in TxHandlers |-> TxIdle]
    /\ az = [h \in {"a1"} |-> AzIdle]
    /\ cookieReq = CookieIdle
    /\ exchanged = {}

NextSetTenants ==
    \/ SetTenantsValidate
    \/ SetTenantsApply
    \/ SetTenantsReturn

SpecSetTenants == InitSetTenants /\ [][NextSetTenants]_vars

\* C37: when the credentials do not exist, or a tenant to assign or unassign
\* does not exist or is not administered by the caller, set_tenants changes no
\* assignment at any time and returns NOT-FOUND or NOT-AUTHORIZED, and it
\* returns those for no other call; a call whose requested set equals the
\* assigned one changes nothing and returns OK.
C37_SetTenantsValidatesBeforeMutating ==
    call.op = "set_tenants" =>
        LET difference == (call.tenants \ call.before) \cup (call.before \ call.tenants)
            invalid == \/ call.cid \notin Creds
                       \/ \E tenant \in difference :
                            tenant \notin call.exists \/ tenant \notin call.admin_of
            Untouched == /\ call.provider_calls = 0
                         /\ call.cid \in Creds => assigned[call.cid] = call.before
        IN /\ invalid => Untouched
           /\ (invalid /\ call.pc = "done") => call.result \in {"NOT-FOUND", "NOT-AUTHORIZED"}
           /\ call.result \in {"NOT-FOUND", "NOT-AUTHORIZED"} => (invalid /\ Untouched)
           /\ (call.cid \notin Creds /\ call.pc = "done") => call.result = "NOT-FOUND"
           /\ (call.cid \in Creds /\ difference = {}) => Untouched
           /\ (call.cid \in Creds /\ difference = {} /\ call.pc = "done") => call.result = "OK"

\* A call was refused for one tenant of its difference although another tenant
\* of the difference could have been assigned.
C37_Witness ==
    /\ call.op = "set_tenants"
    /\ call.pc = "done"
    /\ call.result = "NOT-AUTHORIZED"
    /\ \E tenant \in call.tenants \ call.before :
            tenant \in call.exists /\ tenant \in call.admin_of
    /\ assigned[call.cid] = call.before

\* C38: when set_tenants returns OK the tenants assigned to the credentials
\* are the requested ones, and no provider call of it reported a failure.
C38_OkMeansAssignedAsRequested ==
    (call.op = "set_tenants" /\ call.pc = "done" /\ call.result = "OK") =>
        /\ assigned[call.cid] = call.tenants
        /\ call.failed_count = 0

\* C33: get_session_by_sci finds a session whenever some cookie of the header
\* with the configured name and an accepted domain carries the cookie id of a
\* session, also when an accepted cookie before it carries an id of no session:
\* the introspection is then not refused for a missing session.
C33_LaterCookieSessionReturned ==
    (call.op = "nginx" /\ call.pc # "idle" /\ call.cookie # Nothing) =>
        LET accepted == SelectSeq(Cookies(call.cookie[1]), AcceptedCookie)
            Id(cookie) == UrlsafeB64decode(SubSeq(cookie.value,
                                Find(cookie.value, ":", 1) + 1, Len(cookie.value)))
        IN (\E i \in 1 .. Len(accepted) : ~IsGone(SessionGetBySci(Id(accepted[i]))))
                => call.status # 401

\* ------------------------------------------------ the refresh machine
\* Refreshes of one OIDC session that the Token endpoint runs side by side: a
\* handler reads the session by its refresh token and, after its awaits,
\* refresh_session writes the session.  At most MaxRefresh refreshes are begun.
MaxRefresh == 3

\* The handler reads the session (id 2) that its refresh token names.
RefreshRead(r, requested_scope) ==
    /\ call.op = "refresh"
    /\ call.tasks[r].pc = "idle"
    /\ call.begun < MaxRefresh
    /\ call' = [call EXCEPT !.begun = @ + 1,
                    !.tasks[r] = [pc |-> "read", session |-> sessions[2],
                                  requested_scope |-> requested_scope, result |-> None]]
    /\ UNCHANGED <<worldVars, storeVars, tx, az, cookieReq, exchanged>>

\* refresh_session on the session object the handler read, up to and with
\* SessionService.update_session.
RefreshUpdate(r) ==
    /\ call.op = "refresh"
    /\ call.tasks[r].pc = "read"
    /\ \E o \in RefreshOutcomes(call.tasks[r].session, call.tasks[r].requested_scope) :
        /\ call' = [call EXCEPT !.tasks[r].pc = "idle", !.tasks[r].result = o.result]
        /\ sessions' = IF o.result # "ok" THEN sessions
                       ELSE [sessions EXCEPT ![2] =
                                [@ EXCEPT !.authz = o.authz, !.scope = o.scope]]
    /\ UNCHANGED <<worldVars, tokens, tx, az, cookieReq, exchanged>>

\* alice, assigned to two tenants, holds an OIDC session of a scope granted by
\* the authorize endpoint.
InitRefresh ==
    /\ assigned = [c \in Creds |-> IF c = "alice" THEN {"t1", "t2"} ELSE {}]
    /\ globalRes = [c \in Creds |-> {}]
    /\ credFactors = [c \in Creds |-> {}]
    /\ lastTenants = [c \in Creds |-> << >>]
    /\ \E scope \in {{"openid", "profile"}, {"openid", "profile", "tenant:*"},
                     {"openid", "tenant:t1", "tenant:t2"}, {"openid", "tenant:t1"}} :
         /\ sessions = << RootSession("alice", None, {"totp"}),
                          AuthorizeChild(1, RootSession("alice", None, {"totp"}), "app1",
                                scope, LoopTenants(scope, {"t1", "t2"}), Nothing) >>
         /\ call = [op |-> "refresh", granted |-> scope, begun |-> 0,
                    tasks |-> [r \in {"r1", "r2"} |->
                                [pc |-> "idle", session |-> Gone,
                                 requested_scope |-> Nothing, result |-> None]]]
    /\ tokens = << >>
    /\ tx = [h \in TxHandlers |-> TxIdle]
    /\ az = [h \in {"a1"} |-> AzIdle]
    /\ cookieReq = CookieIdle
    /\ exchanged = {}

NextRefresh ==
    \/ \E r \in {"r1", "r2"} :
        \E requested_scope \in {Nothing, Some({"openid"}), Some(call.granted),
                                Some(call.granted \cup {"email"})} :
            RefreshRead(r, requested_scope)
    \/ \E r \in {"r1", "r2"} : RefreshUpdate(r)

SpecRefresh == InitRefresh /\ [][NextRefresh]_vars

\* C34: whatever refreshes ran on a session, one after the other or two of
\* them between each other's read and update_session, the scope the session
\* stores is a subset of the scope granted at authorization, and a refresh
\* writes no scope entry that the session it was given does not hold.
C34_RefreshNeverAddsScope ==
    /\ [](call.op = "refresh" =>
            /\ sessions[2].scope \subseteq call.granted
            /\ \A r \in DOMAIN call.tasks :
                call.tasks[r].pc = "read" =>
                    call.tasks[r].session.scope \subseteq call.granted)
    /\ [][\A r \in {"r1", "r2"} :
            (/\ call.tasks[r].pc = "read"
             /\ call'.tasks[r].pc = "idle"
             /\ call'.tasks[r].result = "ok")
                => sessions'[2].scope \subseteq call.tasks[r].session.scope]_vars

\* C34 witness: a refresh that read the session before another refresh narrowed
\* it has written the session after it.
C34_Witness ==
    /\ call.op = "refresh"
    /\ call.tasks["r1"].pc = "idle" /\ call.tasks["r1"].result = "ok"
    /\ call.tasks["r2"].pc = "idle" /\ call.tasks["r2"].result = "ok"
    /\ call.tasks["r1"].requested_scope = Some({"openid"})
    /\ call.tasks["r2"].session.scope = call.granted
    /\ sessions[2].scope = call.granted
    /\ call.granted # {"openid"}

\* C36: a refresh with the scope the session has, under unchanged assignments
\* and roles, of a session whose scope resolves to several tenants, leaves the
\* session authorized for the tenants it was authorized for: the rebuilt authz
\* has the tenants of the authz before the refresh, whatever choice is made.
C36_RefreshKeepsTenants ==
    [][\A r \in {"r1", "r2"} :
            (/\ call.tasks[r].pc = "read"
             /\ call'.tasks[r].pc = "idle"
             /\ call'.tasks[r].result = "ok"
             /\ call.tasks[r].session = sessions[2]
             /\ Cardinality(LoopTenants(sessions[2].scope, assigned["alice"])) > 1
             /\ \/ call.tasks[r].requested_scope = Nothing
                \/ call.tasks[r].requested_scope = Some(sessions[2].scope))
            => DOMAIN sessions'[2].authz = DOMAIN sessions[2].authz]_vars

\* ------------------------------------------------------ the login loop machine
\* authorize_query_params of reply_with_redirect_to_login, as the request the
\* loopback URL makes: response_type=code, the scope, client_id, redirect_uri
\* and the state of the request when it has one, and no other parameter.
AuthorizeQueryParams(req) ==
    Req(req.scope, req.client_id, "code", req.redirect_uri, req.state, None)

\* alice, assigned to t1 and with every factor she needs, sends an authorize
\* request with or without her root session (id 1).
InitLoop ==
    /\ InitWorld
    /\ sessions = << RootSession("alice", None, {"totp"}) >>
    /\ tokens = << >>
    /\ tx = [h \in TxHandlers |-> TxIdle]
    /\ \E extra \in {{}, {"profile"}, {"tenant"}, {"tenant:t1"}, {"tenant:*"}, {"cookie"}} :
         \E state \in {None, "xyz"}, prompt \in {"login", "select_account", None} :
            \E sid \in {NoSid, 1} :
                az = [h \in {"a1"} |->
                        [AzIdle EXCEPT !.sid = sid,
                                       !.req = Req({"openid"} \cup extra, "app1", "code",
                                                   "https://app1/cb", state, prompt)]]
    /\ cookieReq = CookieIdle
    /\ call = NoCall
    /\ exchanged = {}

\* The request is handled; when it is answered with the redirect to the login
\* form, alice logs in (root session 2) and her user agent follows the loopback
\* URL with the new session.
NextLoop ==
    \/ az["a1"].pc = "idle" /\ AzReceive("a1", az["a1"].req, az["a1"].sid)
    \/ AzDeleteRoot("a1")
    \/ /\ az["a1"].pc = "done"
       /\ az["a1"].reply.step = "login"
       /\ Len(sessions) = 1
       /\ Login("alice", None, {"totp"})
    \/ /\ az["a1"].pc = "done"
       /\ az["a1"].reply.step = "login"
       /\ LiveSession(2)
       /\ az["a1"].sid # 2
       /\ AzReceive("a1", AuthorizeQueryParams(az["a1"].req), 2)
    \/ AzResolve("a1")
    \/ AzCreate("a1")

SpecLoop == InitLoop /\ [][NextLoop]_vars

\* C35: the loopback URL of the redirect to login carries no prompt, so the
\* request that follows it with the new root session ends the loop: it deletes
\* no session, is not redirected to login again and, the tenants being
\* authorized and no factor missing, is answered with a code.
C35_LoopbackEndsLoginLoop ==
    az["a1"].sid = 2 =>
        /\ az["a1"].req.prompt = None
        /\ az["a1"].pc # "delete"
        /\ az["a1"].deleted = {}
        /\ LiveSession(2)
        /\ az["a1"].pc = "done" =>
                /\ az["a1"].reply.step = "success"
                /\ az["a1"].reply.status = 302
                /\ az["a1"].reply.code # 0

\* ------------------------------------------------------ registration tokens
\* Time is counted in half minutes, up to MaxNow; at most MaxRegistrations
\* registration tokens are issued.
MaxNow == 5
MaxRegistrations == 2
\* [seacatauth:registration] expiration, and the period of Application.tick/60.
InviteExpiration == 3
TickPeriod == 2

\* create_registration_token: a new document of the collection with
\* exp = now + InviteExpiration.
CreateRegistrationToken ==
    /\ call.op = "registration"
    /\ Len(call.rg) < MaxRegistrations
    /\ call' = [call EXCEPT !.last = "create",
                    !.rg = Append(@, [exp |-> call.now + InviteExpiration,
                                      deleted |-> FALSE])]
    /\ UNCHANGED <<worldVars, storeVars, tx, az, cookieReq, exchanged>>

\* get_registration_token: StorageService.get of the document, KeyError when
\* the collection does not hold it.
GetRegistrationToken(token) ==
    /\ call.op = "registration"
    /\ call' = [call EXCEPT !.last = "get",
                    !.got = IF token \in DOMAIN call.rg /\ ~call.rg[token].deleted
                            THEN [token |-> token, result |-> "found",
                                  exp |-> call.rg[token].exp, at |-> call.now]
                            ELSE [token |-> token, result |-> "KeyError",
                                  exp |-> 0, at |-> call.now]]
    /\ UNCHANGED <<worldVars, storeVars, tx, az, cookieReq, exchanged>>

\* _on_tick, every TickPeriod: delete_expired_registration_tokens deletes the
\* documents with exp < now.
DeleteExpiredRegistrationTokens ==
    /\ call.op = "registration"
    /\ call.now % TickPeriod = 0
    /\ call' = [call EXCEPT !.last = "sweep",
                    !.swept = {t \in DOMAIN call.rg :
                                    ~call.rg[t].deleted /\ call.rg[t].exp < call.now},
                    !.rg = [t \in DOMAIN call.rg |->
                                [call.rg[t] EXCEPT !.deleted = @ \/ call.rg[t].exp < call.now]]]
    /\ UNCHANGED <<worldVars, storeVars, tx, az, cookieReq, exchanged>>

InitRegistration ==
    /\ InitWorld
    /\ sessions = << >>
    /\ tokens = << >>
    /\ tx = [h \in TxHandlers |-> TxIdle]
    /\ az = [h \in {"a1"} |-> AzIdle]
    /\ cookieReq = CookieIdle
    /\ exchanged = {}
    /\ call = [op |-> "registration", now |-> 0, rg |-> << >>, last |-> None, swept |-> {},
               got |-> [token |-> 0, result |-> None, exp |-> 0, at |-> 0]]

\* Tokens are issued, looked up and swept while time passes.
NextRegistration ==
    \/ CreateRegistrationToken
    \/ \E token \in 1 .. MaxRegistrations : GetRegistrationToken(token)
    \/ DeleteExpiredRegistrationTokens
    \/ /\ call.op = "registration"
       /\ call.now < MaxNow
       /\ call' = [call EXCEPT !.now = @ + 1, !.last = "time"]
       /\ UNCHANGED <<worldVars, storeVars, tx, az, cookieReq, exchanged>>

SpecRegistration == InitRegistration /\ [][NextRegistration]_vars

\* C39: get_registration_token never returns a token whose exp is before now,
\* also between its expiry and the next sweep; the sweep deletes exactly the
\* tokens whose exp is before now, and a sweep right after a sweep deletes
\* nothing.
C39_ExpiredTokenNeverReturned ==
    /\ [](call.op = "registration" =>
            /\ (call.last = "get" /\ call.got.result = "found") => ~(call.got.exp < call.got.at)
            /\ call.last = "sweep" =>
                    \A t \in DOMAIN call.rg :
                        /\ call.rg[t].deleted <=> call.rg[t].exp < call.now
                        /\ t \in call.swept => call.rg[t].exp < call.now)
    /\ [][(call.last = "sweep" /\ call'.last = "sweep") => call'.rg = call.rg]_vars

====
